---- MODULE Spec2Model ----
(***************************************************************************)
(* Model of the CI maintenance scripts under src/ci:                       *)
(*   check_pinned_deps.py       scan + lookup + report                     *)
(*   check_upstream_versions.py version files against upstream listings    *)
(*   create_update_pr.py        apply a report and open a pull request     *)
(*   check_scan_results.py      scanner findings against the ignore list   *)
(*   generate-matrix.py, generate_matrix.py   build matrices                *)
(*                                                                         *)
(* Text is a sequence of atoms.  An atom is a literal piece of text that   *)
(* the regular expressions and str methods of the scripts never split      *)
(* ("FROM", "node", ":", "20", "@", "sha256:", a 40-hex SHA, ...).  " "    *)
(* and "\n" are the whitespace atoms.  Substring search, replacement and   *)
(* splitting work on the atoms exactly as the Python calls work on the     *)
(* characters.                                                             *)
(***************************************************************************)
EXTENDS Integers, Sequences, FiniteSets, TLC

VARIABLES
    tool,         \* the script whose run this behaviour is
    pc,           \* position of the run in its main()
    files,        \* the working tree: file name -> text, or Missing
    upstream,     \* fixed upstream state (registry / GitHub API) of a pipeline run
    docker_deps,  \* check_pinned_deps.main: docker_deps
    action_deps,  \* check_pinned_deps.main: action_deps
    di,           \* index of the record the current for-loop is at
    updates,      \* report list "updates"
    warnings,     \* report list "warnings"
    up_to_date,   \* report list "up_to_date"
    stdout,       \* the JSON report printed to standard output, or NoReport
    lookups,      \* history: the external lookups performed, in order, with what each did
    cfg,          \* check_upstream_versions.main: the config entry of the version file
    current_versions, \* check_upstream_versions.main: current_versions
    available,    \* check_upstream_versions.main: available
    returned,     \* history: what check_version_update returned for each entry
    origin_main,  \* create_update_pr: the tree of origin/main
    todo,         \* create_update_pr.main: the keys of files_to_update still to process
    staged,       \* the files `git add` has staged
    cmds,         \* history: the git and gh commands run, in order, with their result
    exit_code,    \* exit status of the process, -1 while it runs
    committed,    \* the tree committed on the branch by this run, or None
    remote_branch,\* the tree of the branch on the remote, or None
    pr_open,      \* an open pull request for the branch exists
    prs_created,  \* history: how many pull requests were created
    run_no,       \* create_update_pr: which run of the tool this is, from 1
    scan,         \* check_scan_results.main: its local variables, <<>> elsewhere
    matrix        \* the matrix generators: the images directory and what each run printed,
                  \* <<>> elsewhere

checkVars == <<docker_deps, action_deps, warnings, up_to_date, lookups>>
versionVars == <<cfg, current_versions, available, returned>>
applyVars == <<origin_main, todo, staged, cmds, exit_code, committed, remote_branch,
               pr_open, prs_created>>

----------------------------------------------------------------------------
(* Python values *)

None == <<"<None>">>
Missing == <<"<missing file>">>
NoReport == [none |-> TRUE]

\* f"{x}" : None is formatted as the text None
Fmt(x) == IF x = None THEN <<"None">> ELSE x

----------------------------------------------------------------------------
(* str helpers *)

IsWs(a) == a \in {" ", "\n"}

StartsWithAt(s, sub, i) ==
    /\ i >= 1
    /\ i + Len(sub) - 1 <= Len(s)
    /\ SubSeq(s, i, i + Len(sub) - 1) = sub

\* s[i:] of Python with a 1-based i
Tail_(s, i) == SubSeq(s, i, Len(s))

\* sub in s
Contains(s, sub) == \E i \in 1..(Len(s) + 1) : StartsWithAt(s, sub, i)

\* s.index(sub, i): the first position >= i where sub occurs, 0 when there is none
\* (Python raises ValueError there)
RECURSIVE IndexFrom(_, _, _)
IndexFrom(s, sub, i) ==
    IF i + Len(sub) - 1 > Len(s) THEN 0
    ELSE IF StartsWithAt(s, sub, i) THEN i
    ELSE IndexFrom(s, sub, i + 1)

\* the last position where sub occurs, 0 when there is none (str.rsplit / rfind)
RECURSIVE RIndexFrom(_, _, _)
RIndexFrom(s, sub, i) ==
    IF i < 1 THEN 0
    ELSE IF StartsWithAt(s, sub, i) THEN i
    ELSE RIndexFrom(s, sub, i - 1)

\* s.replace(old, new): every non-overlapping occurrence, left to right
RECURSIVE ReplaceFrom(_, _, _, _)
ReplaceFrom(s, old, new, i) ==
    IF i > Len(s) THEN (IF old = <<>> THEN new ELSE <<>>)
    ELSE IF old = <<>> THEN new \o <<s[i]>> \o ReplaceFrom(s, old, new, i + 1)
    ELSE IF StartsWithAt(s, old, i) THEN new \o ReplaceFrom(s, old, new, i + Len(old))
    ELSE <<s[i]>> \o ReplaceFrom(s, old, new, i + 1)

Replace(s, old, new) == ReplaceFrom(s, old, new, 1)

\* position after the whitespace run starting at i  (\s*)
RECURSIVE SkipWs(_, _)
SkipWs(s, i) == IF i <= Len(s) /\ IsWs(s[i]) THEN SkipWs(s, i + 1) ELSE i

\* position after the run of non-whitespace atoms starting at i  (\S*)
RECURSIVE SkipNonWs(_, _)
SkipNonWs(s, i) == IF i <= Len(s) /\ ~IsWs(s[i]) THEN SkipNonWs(s, i + 1) ELSE i

\* position after the run of atoms that are neither "@" nor whitespace  ([^@\s]*)
RECURSIVE SkipName(_, _)
SkipName(s, i) ==
    IF i <= Len(s) /\ ~IsWs(s[i]) /\ s[i] # "@" THEN SkipName(s, i + 1) ELSE i

\* s.strip()
RECURSIVE RStrip(_)
RStrip(s) == IF s # <<>> /\ IsWs(s[Len(s)]) THEN RStrip(SubSeq(s, 1, Len(s) - 1)) ELSE s

Strip(s) == RStrip(Tail_(s, SkipWs(s, 1)))

\* the lines of a text, split at "\n" (what ^ and $ delimit under re.MULTILINE)
RECURSIVE Lines(_)
Lines(s) ==
    LET n == IndexFrom(s, <<"\n">>, 1) IN
    IF n = 0 THEN (IF s = <<>> THEN <<>> ELSE <<s>>)
    ELSE <<SubSeq(s, 1, n - 1)>> \o Lines(Tail_(s, n + 1))

----------------------------------------------------------------------------
(* Atom classes *)

\* each stands for a string of exactly 40 characters of [0-9a-f]
ShaAtoms == {"shaA", "shaB"}
\* atoms of 40 hexadecimal digits, some of them the capitals A-F
UpperShaAtoms == {"SHAU"}
\* atoms that begin with the letter v and have at least one more character
VTagAtoms == {"v4"}
\* atoms made of word characters only (\w+)
WordAtoms == {"BASE", "build", "node", "20"}
\* "${BASE}" is the token \$\{(\w+)\} with group 1 = "BASE"
VarName(a) == IF a = "${BASE}" THEN "BASE" ELSE ""

DockerFile == "Dockerfile"
WorkflowFile == ".github/workflows/ci.yml"
VariantsFile == "images/node/VARIANTS"
Files == {DockerFile, WorkflowFile, VariantsFile}

----------------------------------------------------------------------------
(* check_pinned_deps.find_docker_digests *)

\* ^ARG\s+(\w+)=(.+)$ on one line
IsArgLine(line) ==
    /\ Len(line) >= 1 /\ line[1] = "ARG"
    /\ LET j == SkipWs(line, 2) IN
        /\ j > 2
        /\ j + 2 <= Len(line)
        /\ line[j] \in WordAtoms
        /\ line[j + 1] = "="

ArgName(line) == line[SkipWs(line, 2)]
ArgValue(line) == Strip(Tail_(line, SkipWs(line, 2) + 2))

\* the args dict after all ARG lines: later lines shadow earlier ones
RECURSIVE CollectArgs(_, _)
CollectArgs(lines, args) ==
    IF lines = <<>> THEN args
    ELSE LET l == Head(lines) IN
         CollectArgs(Tail(lines),
            IF IsArgLine(l)
            THEN [n \in DOMAIN args \cup {ArgName(l)} |->
                     IF n = ArgName(l) THEN ArgValue(l) ELSE args[n]]
            ELSE args)

\* ^FROM\s+(\S+?)(?:\s+AS\s+\w+)?\s*$ on one line
FromTailOk(rest) ==
    \/ SkipWs(rest, 1) > Len(rest)
    \/ LET a == SkipWs(rest, 1) IN
        /\ a > 1 /\ a <= Len(rest) /\ rest[a] = "AS"
        /\ LET b == SkipWs(rest, a + 1) IN
            /\ b > a + 1 /\ b <= Len(rest) /\ rest[b] \in WordAtoms
            /\ SkipWs(rest, b + 1) > Len(rest)

IsFromLine(line) ==
    /\ Len(line) >= 1 /\ line[1] = "FROM"
    /\ LET j == SkipWs(line, 2) IN
       LET k == SkipNonWs(line, j) IN
        /\ j > 2
        /\ k > j
        /\ FromTailOk(Tail_(line, k))

FromRef(line) ==
    LET j == SkipWs(line, 2) IN SubSeq(line, j, SkipNonWs(line, j) - 1)

\* re.sub(r"\$\{(\w+)\}", lambda v: args.get(v.group(1), v.group(0)), from_ref)
RECURSIVE Resolve(_, _)
Resolve(ref, args) ==
    IF ref = <<>> THEN <<>>
    ELSE (IF VarName(Head(ref)) \in DOMAIN args
          THEN args[VarName(Head(ref))] ELSE <<Head(ref)>>)
         \o Resolve(Tail(ref), args)

\* a split that keeps the tag inside the image
ImageOf_Whole(base) == base

\* image, tag = base.rsplit(":", 1), or (base, "latest") when base has no ":"
ImageOf(base) ==
    LET c == RIndexFrom(base, <<":">>, Len(base)) IN
    IF c = 0 THEN base ELSE SubSeq(base, 1, c - 1)

TagOf(base) ==
    LET c == RIndexFrom(base, <<":">>, Len(base)) IN
    IF c = 0 THEN <<"latest">> ELSE Tail_(base, c + 1)

DigestMark == <<"@", "sha256:">>

DockerRecord(file, from_ref, args) ==
    LET resolved == Resolve(from_ref, args) IN
    IF Contains(resolved, DigestMark)
    THEN LET at == IndexFrom(resolved, DigestMark, 1) IN
         LET base == SubSeq(resolved, 1, at - 1) IN
         [file |-> file, image |-> ImageOf(base), tag |-> TagOf(base),
          current_digest |-> <<"sha256:">> \o Tail_(resolved, at + 2),
          type |-> "docker_digest", raw_ref |-> from_ref]
    ELSE [file |-> file, image |-> ImageOf(resolved), tag |-> TagOf(resolved),
          current_digest |-> None,
          type |-> "docker_unpinned", raw_ref |-> from_ref]

RECURSIVE FromRecords(_, _, _)
FromRecords(file, lines, args) ==
    IF lines = <<>> THEN <<>>
    ELSE (IF IsFromLine(Head(lines))
          THEN <<DockerRecord(file, FromRef(Head(lines)), args)>> ELSE <<>>)
         \o FromRecords(file, Tail(lines), args)

\* the records of one Dockerfile; a file that does not exist is not globbed
find_docker_digests(fs) ==
    IF fs[DockerFile] = Missing THEN <<>>
    ELSE LET lines == Lines(fs[DockerFile]) IN
         FromRecords(DockerFile, lines, CollectArgs(lines, <<>>))

----------------------------------------------------------------------------
(* check_pinned_deps.find_action_pins *)

AtLineStart(s, p) == p = 1 \/ s[p - 1] = "\n"

\* ^\s*-?\s*uses:\s+([^@\s]+)@(\S+) tried at position p
MatchUses(s, p) ==
    LET a == SkipWs(s, p) IN
    LET b == IF a <= Len(s) /\ s[a] = "-" THEN a + 1 ELSE a IN
    LET c == SkipWs(s, b) IN
    LET d == SkipWs(s, c + 1) IN
    LET e == SkipName(s, d) IN
    LET f == SkipNonWs(s, e + 1) IN
    IF /\ c <= Len(s) /\ s[c] = "uses:"
       /\ d > c + 1
       /\ e > d
       /\ e <= Len(s) /\ s[e] = "@"
       /\ f > e + 1
    THEN [found |-> TRUE, action |-> SubSeq(s, d, e - 1),
          ref |-> SubSeq(s, e + 1, f - 1), end |-> f]
    ELSE [found |-> FALSE, action |-> <<>>, ref |-> <<>>, end |-> p]

\* re.search(r"#\s*(v\S+)", line): group 1, or None
RECURSIVE TagComment(_, _)
TagComment(line, i) ==
    IF i > Len(line) THEN None
    ELSE LET j == SkipWs(line, i + 1) IN
         IF line[i] = "#" /\ j <= Len(line) /\ line[j] \in VTagAtoms
         THEN SubSeq(line, j, SkipNonWs(line, j) - 1)
         ELSE TagComment(line, i + 1)

\* re.match(r"^[0-9a-f]{40}$", ref)
IsSha40(ref) == Len(ref) = 1 /\ ref[1] \in ShaAtoms

ActionRecord(file, action, ref, tag) ==
    IF IsSha40(ref)
    THEN [file |-> file, action |-> action, current_sha |-> ref, tag |-> tag,
          type |-> "action_pinned", raw_ref |-> action \o <<"@">> \o ref]
    ELSE [file |-> file, action |-> action, current_sha |-> None, tag |-> ref,
          type |-> "action_unpinned", raw_ref |-> action \o <<"@">> \o ref]

\* re.finditer from position p.  ok = FALSE: content.index("\n", m.start())
\* raised ValueError, which nothing catches
RECURSIVE ScanUses(_, _, _)
ScanUses(file, s, p) ==
    IF p > Len(s) THEN [ok |-> TRUE, recs |-> <<>>]
    ELSE IF ~AtLineStart(s, p) THEN ScanUses(file, s, p + 1)
    ELSE LET m == MatchUses(s, p) IN
         IF ~m.found THEN ScanUses(file, s, p + 1)
         ELSE IF StartsWithAt(m.action, <<".", "/">>, 1) THEN ScanUses(file, s, m.end)
         ELSE LET nl == IndexFrom(s, <<"\n">>, p) IN
              IF nl = 0 THEN [ok |-> FALSE, recs |-> <<>>]
              ELSE LET rest == ScanUses(file, s, m.end) IN
                   LET tag == TagComment(SubSeq(s, p, nl - 1), 1) IN
                   [ok |-> rest.ok,
                    recs |-> <<ActionRecord(file, m.action, m.ref, tag)>> \o rest.recs]

find_action_pins(fs) ==
    IF fs[WorkflowFile] = Missing THEN [ok |-> TRUE, recs |-> <<>>]
    ELSE ScanUses(WorkflowFile, fs[WorkflowFile], 1)

----------------------------------------------------------------------------
(* check_pinned_deps: the external lookups *)

\* What running `crane digest` can do: the binary is missing, it exits non-zero,
\* it runs into the 30 s timeout, or it exits 0 with some standard output.
CraneStdouts == { <<"sha256:", "dA", "\n">>, <<"sha256:", "dB", "\n">>, <<>> }
CraneOutcomes ==
    { [kind |-> k, stdout |-> <<>>] : k \in {"missing", "nonzero", "timeout"} }
    \cup { [kind |-> "exit0", stdout |-> o] : o \in CraneStdouts }

\* check_docker_update, given what the subprocess did
check_docker_update(outcome) ==
    IF outcome.kind = "exit0" THEN Strip(outcome.stdout) ELSE None

\* What running `gh api .../commits/<ref>` can do.  The standard output of an
\* exit 0 is a JSON object with a "sha", a JSON object without one, or no JSON.
GhStdouts ==
    { [json |-> TRUE, sha |-> <<"shaA">>], [json |-> TRUE, sha |-> <<"shaB">>],
      [json |-> TRUE, sha |-> None], [json |-> FALSE, sha |-> None] }
GhNoOutput == [json |-> FALSE, sha |-> None]
GhOutcomes ==
    { [kind |-> k, stdout |-> GhNoOutput] : k \in {"missing", "nonzero", "timeout"} }
    \cup { [kind |-> "exit0", stdout |-> o] : o \in GhStdouts }

\* check_action_update, given what the subprocess did.  raised = TRUE: json.loads
\* raised JSONDecodeError, which the function does not catch.
check_action_update(outcome) ==
    IF outcome.kind # "exit0" THEN [raised |-> FALSE, value |-> None]
    ELSE IF ~outcome.stdout.json THEN [raised |-> TRUE, value |-> None]
    ELSE [raised |-> FALSE, value |-> outcome.stdout.sha]

\* owner_repo: the first two "/"-separated segments of the action
OwnerRepo(action) ==
    LET s1 == IndexFrom(action, <<"/">>, 1) IN
    LET s2 == IF s1 = 0 THEN 0 ELSE IndexFrom(action, <<"/">>, s1 + 1) IN
    IF s2 = 0 THEN action ELSE SubSeq(action, 1, s2 - 1)

\* the argument of `crane digest`
CraneKey(dep) == dep.image \o <<":">> \o dep.tag
\* the path of the `gh api` call
GhKey(dep) == OwnerRepo(dep.action) \o <<"/commits/">> \o Fmt(dep.tag)

----------------------------------------------------------------------------
(* check_pinned_deps.main: what one loop iteration appends, and where.       *)
(* src is a history field: the scan index of the record the entry is for.    *)

\* a classification that forgets the comparison of line 225
DockerEntry_AlwaysUpdate(dep, latest, src) ==
    IF latest = None
    THEN [list |-> "warnings",
          entry |-> [file |-> dep.file, image |-> dep.image, tag |-> dep.tag,
                     reason |-> <<"Could not check update for ">>,
                     type |-> dep.type, src |-> src]]
    ELSE [list |-> "updates",
          entry |-> [file |-> dep.file, image |-> dep.image, tag |-> dep.tag,
                     current_digest |-> dep.current_digest, latest_digest |-> latest,
                     type |-> dep.type, raw_ref |-> dep.raw_ref, src |-> src]]

\* lines 200-243: the list and the entry for one docker record
DockerEntry(dep, latest, src) ==
    IF latest = None
    THEN [list |-> "warnings",
          entry |-> [file |-> dep.file, image |-> dep.image, tag |-> dep.tag,
                     reason |-> <<"Could not check update for ">> \o CraneKey(dep),
                     type |-> dep.type, src |-> src]]
    ELSE IF dep.type = "docker_unpinned"
    THEN [list |-> "updates",
          entry |-> [file |-> dep.file, image |-> dep.image, tag |-> dep.tag,
                     current_digest |-> None, latest_digest |-> latest,
                     type |-> "docker_unpinned", raw_ref |-> dep.raw_ref, src |-> src]]
    ELSE IF latest # dep.current_digest
    THEN [list |-> "updates",
          entry |-> [file |-> dep.file, image |-> dep.image, tag |-> dep.tag,
                     current_digest |-> dep.current_digest, latest_digest |-> latest,
                     type |-> "docker_digest", raw_ref |-> dep.raw_ref, src |-> src]]
    ELSE [list |-> "up_to_date",
          entry |-> [file |-> dep.file, image |-> dep.image, tag |-> dep.tag,
                     digest |-> dep.current_digest,
                     type |-> "docker_digest", raw_ref |-> dep.raw_ref, src |-> src]]

\* the branch of line 249: no lookup is made for such a record
ActionSkipsLookup(dep) == dep.type = "action_no_tag"

NoTagEntry(dep, src) ==
    [list |-> "warnings",
     entry |-> [file |-> dep.file, action |-> dep.action, current_sha |-> dep.current_sha,
                reason |-> <<"SHA-pinned action without tag comment">>,
                type |-> "action_no_tag", src |-> src]]

ActionEntry(dep, latest, src) ==
    IF latest = None
    THEN [list |-> "warnings",
          entry |-> [file |-> dep.file, action |-> dep.action, ref |-> dep.tag,
                     reason |-> <<"Could not check update for ">>
                                  \o dep.action \o <<"@">> \o Fmt(dep.tag),
                     type |-> dep.type, src |-> src]]
    ELSE IF dep.type = "action_unpinned"
    THEN [list |-> "updates",
          entry |-> [file |-> dep.file, action |-> dep.action, tag |-> dep.tag,
                     current_sha |-> None, latest_sha |-> latest,
                     type |-> "action_unpinned", raw_ref |-> dep.raw_ref, src |-> src]]
    ELSE IF latest # dep.current_sha
    THEN [list |-> "updates",
          entry |-> [file |-> dep.file, action |-> dep.action, tag |-> dep.tag,
                     current_sha |-> dep.current_sha, latest_sha |-> latest,
                     type |-> "action_pinned", raw_ref |-> dep.raw_ref, src |-> src]]
    ELSE [list |-> "up_to_date",
          entry |-> [file |-> dep.file, action |-> dep.action, tag |-> dep.tag,
                     sha |-> dep.current_sha,
                     type |-> "action_pinned", raw_ref |-> dep.raw_ref, src |-> src]]

----------------------------------------------------------------------------
(* Input texts of the bounded check *)

NL == "\n"

\* two stages, the first reference a prefix of the second
DockerTwoStage ==
    <<"FROM", " ", "node", ":", "20", " ", "AS", " ", "build", NL,
      "FROM", " ", "node", ":", "20", "-alpine", NL>>
\* one digest-pinned reference
DockerPinned ==
    <<"FROM", " ", "node", ":", "20", "@", "sha256:", "dA", NL>>
\* a reference given through an ARG default, and an untagged reference
DockerArg ==
    <<"ARG", " ", "BASE", "=", "node", ":", "20", "@", "sha256:", "dB", NL,
      "FROM", " ", "${BASE}", NL,
      "FROM", " ", "node", NL>>
\* no FROM line at all
DockerEmpty == <<"#", " ", "nothing", NL>>

DockerTexts == {DockerTwoStage, DockerPinned, DockerArg, DockerEmpty}

\* SHA-pinned with its tag comment, and a local action
WorkflowTagged ==
    <<" ", "-", " ", "uses:", " ", "a", "/", "c", "@", "shaA", " ", "#", " ", "v4", NL,
      " ", "-", " ", "uses:", " ", ".", "/", "local", "@", "v4", NL>>
\* SHA-pinned without a tag comment
WorkflowNoTag ==
    <<"uses:", " ", "a", "/", "c", "/", "sub", "@", "shaA", NL>>
\* a branch and a version tag
WorkflowUnpinned ==
    <<"uses:", " ", "a", "/", "c", "@", "main", NL,
      "uses:", " ", "a", "/", "c", "@", "v4", NL>>

WorkflowTexts == {WorkflowTagged, WorkflowNoTag, WorkflowUnpinned}

Tree(d, w, v) ==
    [f \in Files |-> IF f = DockerFile THEN d ELSE IF f = WorkflowFile THEN w ELSE v]

----------------------------------------------------------------------------
(* check_pinned_deps.main as a state machine *)

\* an insertion at the front of the list
Put_Front(e) ==
    /\ updates' = IF e.list = "updates" THEN <<e.entry>> \o updates ELSE updates
    /\ warnings' = IF e.list = "warnings" THEN <<e.entry>> \o warnings ELSE warnings
    /\ up_to_date' = IF e.list = "up_to_date" THEN <<e.entry>> \o up_to_date
                     ELSE up_to_date

Put(e) ==
    /\ updates' = IF e.list = "updates" THEN Append(updates, e.entry) ELSE updates
    /\ warnings' = IF e.list = "warnings" THEN Append(warnings, e.entry) ELSE warnings
    /\ up_to_date' = IF e.list = "up_to_date" THEN Append(up_to_date, e.entry) ELSE up_to_date

\* lines 189-197: scan both kinds of file, start with empty lists
Scan ==
    /\ tool = "check" /\ pc = "scan"
    /\ LET a == find_action_pins(files) IN
        /\ docker_deps' = find_docker_digests(files)
        /\ action_deps' = a.recs
        /\ pc' = IF a.ok THEN "docker_loop" ELSE "scan_crashed"
    /\ di' = 1
    /\ UNCHANGED <<matrix, tool, run_no, scan, files, upstream, updates, warnings, up_to_date, stdout, lookups>>
    /\ UNCHANGED versionVars
    /\ UNCHANGED applyVars

\* lines 200-243: one iteration of the loop over docker_deps
CheckDocker ==
    /\ tool = "check" /\ pc = "docker_loop" /\ di <= Len(docker_deps)
    /\ \E outcome \in CraneOutcomes :
         /\ Put(DockerEntry(docker_deps[di], check_docker_update(outcome), <<"docker", di>>))
         /\ lookups' = Append(lookups, [cmd |-> "crane", key |-> CraneKey(docker_deps[di]),
                                        src |-> <<"docker", di>>, outcome |-> outcome])
    /\ di' = di + 1
    /\ UNCHANGED <<matrix, tool, run_no, scan, pc, files, upstream, docker_deps, action_deps, stdout>>
    /\ UNCHANGED versionVars
    /\ UNCHANGED applyVars

\* the loop over docker_deps is exhausted
DockerLoopEnd ==
    /\ tool = "check" /\ pc = "docker_loop" /\ di > Len(docker_deps)
    /\ pc' = "action_loop"
    /\ di' = 1
    /\ UNCHANGED <<matrix, tool, run_no, scan, files, upstream, docker_deps, action_deps, updates, warnings,
                   up_to_date, stdout, lookups>>
    /\ UNCHANGED versionVars
    /\ UNCHANGED applyVars

\* lines 246-305: one iteration of the loop over action_deps
CheckAction ==
    /\ tool = "check" /\ pc = "action_loop" /\ di <= Len(action_deps)
    /\ LET dep == action_deps[di] IN
       IF ActionSkipsLookup(dep)
       THEN /\ Put(NoTagEntry(dep, <<"action", di>>))
            /\ di' = di + 1
            /\ UNCHANGED <<pc, lookups>>
       ELSE \E outcome \in GhOutcomes :
              LET r == check_action_update(outcome) IN
              /\ lookups' = Append(lookups, [cmd |-> "gh", key |-> GhKey(dep),
                                             src |-> <<"action", di>>, outcome |-> outcome])
              /\ IF r.raised
                 THEN /\ pc' = "crashed"
                      /\ UNCHANGED <<di, updates, warnings, up_to_date>>
                 ELSE /\ Put(ActionEntry(dep, r.value, <<"action", di>>))
                      /\ di' = di + 1
                      /\ UNCHANGED pc
    /\ UNCHANGED <<matrix, tool, run_no, scan, files, upstream, docker_deps, action_deps, stdout>>
    /\ UNCHANGED versionVars
    /\ UNCHANGED applyVars

\* lines 307-321: the report is printed
EmitReport ==
    /\ tool = "check" /\ pc = "action_loop" /\ di > Len(action_deps)
    /\ stdout' = [updates |-> updates, warnings |-> warnings, up_to_date |-> up_to_date]
    /\ pc' = "done"
    /\ UNCHANGED <<matrix, tool, run_no, scan, files, upstream, docker_deps, action_deps, di, updates, warnings,
                   up_to_date, lookups>>
    /\ UNCHANGED versionVars
    /\ UNCHANGED applyVars

\* the state before main() has run
CheckIdle ==
    /\ docker_deps = <<>> /\ action_deps = <<>>
    /\ warnings = <<>> /\ up_to_date = <<>> /\ lookups = <<>>

VersionIdle ==
    /\ cfg = <<>> /\ current_versions = <<>> /\ available = <<>> /\ returned = <<>>

ScanIdle == scan = <<>>

MatrixIdle == matrix = <<>>

ApplyIdle ==
    /\ origin_main = <<>> /\ todo = <<>> /\ staged = {} /\ cmds = <<>>
    /\ exit_code = -1 /\ committed = None /\ remote_branch = None
    /\ pr_open = FALSE /\ prs_created = 0

Init ==
    /\ run_no = 1 /\ ScanIdle /\ MatrixIdle
    /\ tool = "check" /\ pc = "scan"
    /\ \E d \in DockerTexts, w \in WorkflowTexts : files = Tree(d, w, Missing)
    /\ upstream = <<>>
    /\ di = 1 /\ updates = <<>> /\ stdout = NoReport
    /\ CheckIdle /\ VersionIdle /\ ApplyIdle

Next == Scan \/ CheckDocker \/ DockerLoopEnd \/ CheckAction \/ EmitReport

vars == <<tool, pc, files, upstream, docker_deps, action_deps, di, updates, warnings,
          up_to_date, stdout, lookups, cfg, current_versions, available, returned,
          origin_main, todo, staged, cmds, exit_code, committed, remote_branch, pr_open,
          prs_created, run_no, scan, matrix>>

Spec == Init /\ [][Next]_vars

----------------------------------------------------------------------------
(* Properties of check_pinned_deps.main *)

\* the scan indices of the records the scanners returned
Records ==
    { <<"docker", k>> : k \in 1..Len(docker_deps) }
    \cup { <<"action", k>> : k \in 1..Len(action_deps) }

DepOf(src) == IF src[1] = "docker" THEN docker_deps[src[2]] ELSE action_deps[src[2]]

\* how many entries of list l are for record src
Occ(l, src) == Cardinality({ k \in 1..Len(l) : l[k].src = src })

InList(l, src) == Occ(l, src) > 0

\* the run is over: the report was printed, or a traceback ended the process
Ended == tool = "check" /\ pc \in {"done", "crashed", "scan_crashed"}

\* the record's loop iteration is over
Processed(src) ==
    \/ pc = "done"
    \/ src[1] = "docker" /\ (pc \in {"action_loop", "crashed"}
                              \/ (pc = "docker_loop" /\ src[2] < di))
    \/ src[1] = "action" /\ pc \in {"action_loop", "crashed"} /\ src[2] < di

\* C1: once the run is over, every record the scanners returned is in exactly one of
\* updates, warnings, up_to_date, whatever the lookups did.
C1_ExactlyOneList ==
    Ended => \A src \in Records :
                Occ(updates, src) + Occ(warnings, src) + Occ(up_to_date, src) = 1

\* What does hold (not C1): in a run that printed its report, every record is in
\* exactly one list, and no record is ever in two.
ExactlyOneListWhenReported ==
    /\ \A src \in Records :
          Occ(updates, src) + Occ(warnings, src) + Occ(up_to_date, src)
             = IF Processed(src) THEN 1 ELSE 0
    /\ pc = "done" =>
          \A src \in Records :
             Occ(stdout.updates, src) + Occ(stdout.warnings, src)
                + Occ(stdout.up_to_date, src) = 1

\* a 40-hex ref whose line carries no "# v..." comment
PinnedNoTag(dep) == dep.type = "action_pinned" /\ dep.tag = None

LookedUp(src) == \E k \in 1..Len(lookups) : lookups[k].src = src

\* C2: a SHA-pinned action without a tag comment is a warning, never an update or
\* up to date, and no lookup is made for it.
C2_NoTagAlwaysWarning ==
    \A k \in 1..Len(action_deps) :
       PinnedNoTag(action_deps[k]) =>
          /\ ~LookedUp(<<"action", k>>)
          /\ ~InList(updates, <<"action", k>>)
          /\ ~InList(up_to_date, <<"action", k>>)
          /\ Processed(<<"action", k>>) => InList(warnings, <<"action", k>>)

\* the lookup gave no usable value: no binary, non-zero exit, timeout, or an exit 0
\* whose output holds no digest / no commit SHA
LookupFailed(h) ==
    \/ h.outcome.kind # "exit0"
    \/ h.cmd = "crane" /\ Strip(h.outcome.stdout) = <<>>
    \/ h.cmd = "gh" /\ (~h.outcome.stdout.json \/ h.outcome.stdout.sha = None)

WarnedWithReason(src) ==
    \E k \in 1..Len(warnings) :
       /\ warnings[k].src = src
       /\ "reason" \in DOMAIN warnings[k]
       /\ warnings[k].reason # <<>>

\* C3: no lookup outcome aborts the run; the failing record is a warning with a
\* reason, the later records are still looked up, and the report is printed.
C3_LookupFailureNeverFatal ==
    /\ pc \notin {"crashed", "scan_crashed"}
    /\ \A k \in 1..Len(lookups) :
          (LookupFailed(lookups[k]) /\ Processed(lookups[k].src))
             => WarnedWithReason(lookups[k].src)
    /\ pc = "done" => (stdout # NoReport /\ \A src \in Records : LookedUp(src))

\* the value a successful lookup resolved to
Resolved(h) ==
    IF h.cmd = "crane" THEN Strip(h.outcome.stdout) ELSE h.outcome.stdout.sha

LookupSucceeded(h) ==
    /\ h.outcome.kind = "exit0"
    /\ h.cmd = "gh" => (h.outcome.stdout.json /\ h.outcome.stdout.sha # None)

CurrentOf(dep) == IF "image" \in DOMAIN dep THEN dep.current_digest ELSE dep.current_sha

Unpinned(dep) == dep.type \in {"docker_unpinned", "action_unpinned"}

OnlyIn(name, src) ==
    /\ Occ(updates, src) = (IF name = "updates" THEN 1 ELSE 0)
    /\ Occ(warnings, src) = (IF name = "warnings" THEN 1 ELSE 0)
    /\ Occ(up_to_date, src) = (IF name = "up_to_date" THEN 1 ELSE 0)

\* C8: for a record whose lookup succeeded the category depends on the kind and the
\* two values only: unpinned -> update; pinned and equal -> up to date; pinned and
\* different -> update.
C8_CategoryByKindAndValues ==
    \A k \in 1..Len(lookups) :
       LET h == lookups[k] IN
       LET dep == DepOf(h.src) IN
       (LookupSucceeded(h) /\ Processed(h.src)) =>
          OnlyIn(IF Unpinned(dep) THEN "updates"
                 ELSE IF Resolved(h) = CurrentOf(dep) THEN "up_to_date"
                 ELSE "updates", h.src)

\* all three cases of C8 in one finished run: an unpinned record, a pinned record
\* resolved to its current value and a pinned record resolved to another value
C8_Witness ==
    /\ pc = "done"
    /\ \E a, b, c \in 1..Len(lookups) :
          /\ LookupSucceeded(lookups[a]) /\ Unpinned(DepOf(lookups[a].src))
          /\ InList(stdout.updates, lookups[a].src)
          /\ LookupSucceeded(lookups[b]) /\ ~Unpinned(DepOf(lookups[b].src))
          /\ Resolved(lookups[b]) = CurrentOf(DepOf(lookups[b].src))
          /\ InList(stdout.up_to_date, lookups[b].src)
          /\ LookupSucceeded(lookups[c]) /\ ~Unpinned(DepOf(lookups[c].src))
          /\ Resolved(lookups[c]) # CurrentOf(DepOf(lookups[c].src))
          /\ InList(stdout.updates, lookups[c].src)

----------------------------------------------------------------------------
(* check_upstream_versions: class Version.  A version string is a sequence   *)
(* of characters.                                                            *)

Digits == {"0", "1", "2", "3", "4", "5", "6", "7", "8", "9"}
Letters == {"v", "a", "s"}

DigitVal(c) ==
    CASE c = "0" -> 0 [] c = "1" -> 1 [] c = "2" -> 2 [] c = "3" -> 3 [] c = "4" -> 4
      [] c = "5" -> 5 [] c = "6" -> 6 [] c = "7" -> 7 [] c = "8" -> 8 [] c = "9" -> 9

\* [int(p) for p in re.findall(r'\d+', v_str)]: run is the value of the digit run
\* being read, inrun whether one is being read
RECURSIVE DigitRuns(_, _, _, _)
DigitRuns(v, i, run, inrun) ==
    IF i > Len(v) THEN (IF inrun THEN <<run>> ELSE <<>>)
    ELSE IF v[i] \in Digits THEN DigitRuns(v, i + 1, 10 * run + DigitVal(v[i]), TRUE)
    ELSE (IF inrun THEN <<run>> ELSE <<>>) \o DigitRuns(v, i + 1, 0, FALSE)

VParts(v) == DigitRuns(v, 1, 0, FALSE)

\* Version.__init__
Version(v) ==
    LET parts == VParts(v) IN
    [raw |-> v, parts |-> parts,
     major |-> IF Len(parts) > 0 THEN parts[1] ELSE 0,
     minor |-> IF Len(parts) > 1 THEN parts[2] ELSE 0,
     micro |-> IF Len(parts) > 2 THEN parts[3] ELSE 0]

\* a < b of two Python lists of integers
RECURSIVE ListLt(_, _)
ListLt(a, b) ==
    IF b = <<>> THEN FALSE
    ELSE IF a = <<>> THEN TRUE
    ELSE IF Head(a) # Head(b) THEN Head(a) < Head(b)
    ELSE ListLt(Tail(a), Tail(b))

\* Version.__lt__, __gt__, __eq__ : all three compare self.parts
VLt(a, b) == ListLt(a.parts, b.parts)
VGt(a, b) == ListLt(b.parts, a.parts)
VEq(a, b) == a.parts = b.parts

----------------------------------------------------------------------------
(* check_upstream_versions.check_version_update *)

NoTemplate == [none |-> TRUE]

\* re.match("^" + escaped template with {version} as (.*) + "$", v_str); the
\* template is given by the literal text before and after its {version}
TemplateMatches(t, v) ==
    /\ Len(v) >= Len(t.pre) + Len(t.suf)
    /\ StartsWithAt(v, t.pre, 1)
    /\ StartsWithAt(v, t.suf, Len(v) - Len(t.suf) + 1)

TemplateGroup(t, v) == SubSeq(v, Len(t.pre) + 1, Len(v) - Len(t.suf))

\* re.search(r'[a-zA-Z]', clean_v)
HasLetter(v) == \E i \in 1..Len(v) : v[i] \in Letters

\* a filter that forgets the major test of line 98
AcceptsCandidate_AnyMajor(curr, v_obj, strict_minor) ==
    /\ VGt(v_obj, curr)
    /\ strict_minor => v_obj.minor = curr.minor

\* lines 92-101: whether clean_v is appended to candidates
AcceptsCandidate(curr, v_obj, strict_minor) ==
    /\ VGt(v_obj, curr)
    /\ v_obj.major = curr.major
    /\ strict_minor => v_obj.minor = curr.minor

\* lines 70-103: the loop over available_versions
RECURSIVE Candidates(_, _, _, _)
Candidates(curr, avail, strict_minor, tag_template) ==
    IF avail = <<>> THEN <<>>
    ELSE LET v_str == Head(avail) IN
         LET rest == Candidates(curr, Tail(avail), strict_minor, tag_template) IN
         IF tag_template # NoTemplate /\ ~TemplateMatches(tag_template, v_str) THEN rest
         ELSE LET clean_v == IF tag_template # NoTemplate
                             THEN TemplateGroup(tag_template, v_str) ELSE v_str IN
              IF HasLetter(clean_v) THEN rest
              ELSE IF VParts(clean_v) = <<>> THEN rest
              ELSE IF AcceptsCandidate(curr, Version(clean_v), strict_minor)
              THEN <<clean_v>> \o rest
              ELSE rest

\* list.sort(key=Version, reverse=True): stable, equal keys keep their order
RECURSIVE InsertDesc(_, _)
InsertDesc(sorted, x) ==
    IF sorted = <<>> THEN <<x>>
    ELSE IF VLt(Version(Head(sorted)), Version(x)) THEN <<x>> \o sorted
    ELSE <<Head(sorted)>> \o InsertDesc(Tail(sorted), x)

RECURSIVE SortDesc(_, _)
SortDesc(rest, sorted) ==
    IF rest = <<>> THEN sorted ELSE SortDesc(Tail(rest), InsertDesc(sorted, Head(rest)))

check_version_update(curr_ver, available_versions, strict_minor, tag_template) ==
    LET candidates ==
          Candidates(Version(curr_ver), available_versions, strict_minor, tag_template) IN
    IF candidates = <<>> THEN None ELSE SortDesc(candidates, <<>>)[1]

----------------------------------------------------------------------------
(* check_upstream_versions.main as a state machine, for one config entry *)

\* [line.strip() for line in content.splitlines() if line.strip()]
RECURSIVE StripLines(_)
StripLines(lines) ==
    IF lines = <<>> THEN <<>>
    ELSE (IF Strip(Head(lines)) # <<>> THEN <<Strip(Head(lines))>> ELSE <<>>)
         \o StripLines(Tail(lines))

\* majors[m] of lines 136-142: the minors seen among the entries of major m
MinorsOf(entries, m) ==
    { Version(entries[k]).minor :
        k \in { j \in 1..Len(entries) : Version(entries[j]).major = m } }

\* get_github_releases: the tags that start with prefix, without it
RECURSIVE StripPrefix(_, _)
StripPrefix(tags, prefix) ==
    IF tags = <<>> THEN <<>>
    ELSE (IF StartsWithAt(Head(tags), prefix, 1)
          THEN <<Tail_(Head(tags), Len(prefix) + 1)>> ELSE <<>>)
         \o StripPrefix(Tail(tags), prefix)

V120 == <<"1", ".", "2", ".", "0">>
V130 == <<"1", ".", "3", ".", "0">>
V125 == <<"1", ".", "2", ".", "5">>
V140 == <<"1", ".", "4", ".", "0">>
V200 == <<"2", ".", "0", ".", "0">>
V20 == <<"2", ".", "0">>
V1210 == <<"1", ".", "2", ".", "1", "0">>

VersionTexts ==
    { V120 \o <<NL>> \o V130 \o <<NL>>,
      V20 \o <<NL>>,
      <<"v">> \o V120 \o <<NL, NL>>,
      V120 \o <<NL>> \o V200 }

\* the tags the upstream command lists; ok = FALSE: run_cmd returned None
Listings ==
    { [ok |-> TRUE, tags |-> <<V125, V140>>],
      [ok |-> TRUE, tags |-> << <<"v">> \o V125, <<"v">> \o V1210,
                                <<"v">> \o V130 \o <<"a">>, <<"v", "2", ".", "0", ".", "1">> >>],
      [ok |-> TRUE, tags |-> <<V200, <<"2", ".", "1", "-", "s">>, V200 \o <<"-", "s">> >>],
      [ok |-> FALSE, tags |-> <<>>] }

Configs ==
    { [source |-> "docker_hub", prefix |-> <<"v">>, tag_template |-> NoTemplate],
      [source |-> "github_release", prefix |-> <<"v">>, tag_template |-> NoTemplate],
      [source |-> "docker_hub", prefix |-> <<"v">>,
       tag_template |-> [pre |-> <<>>, suf |-> <<"-", "s">>]] }

\* lines 126-129
ReadEntries(content) == StripLines(Lines(Strip(content)))

\* lines 145-150
AvailableFrom(c, listing) ==
    IF ~listing.ok THEN <<>>
    ELSE IF c.source = "github_release" THEN StripPrefix(listing.tags, c.prefix)
    ELSE listing.tags

\* lines 122-142
ReadVersions ==
    /\ tool = "versions" /\ pc = "read"
    /\ IF files[VariantsFile] = Missing
       THEN /\ pc' = "emit"
            /\ UNCHANGED current_versions
       ELSE LET cv == ReadEntries(files[VariantsFile]) IN
            /\ current_versions' = cv
            /\ pc' = IF cv = <<>> THEN "emit" ELSE "fetch"
    /\ UNCHANGED <<matrix, tool, run_no, scan, files, upstream, di, updates, stdout, cfg, available, returned>>
    /\ UNCHANGED checkVars
    /\ UNCHANGED applyVars

\* lines 144-156
FetchUpstream ==
    /\ tool = "versions" /\ pc = "fetch"
    /\ \E listing \in Listings :
         LET got == AvailableFrom(cfg, listing) IN
         /\ available' = got
         /\ pc' = IF got = <<>> THEN "emit" ELSE "loop"
    /\ di' = 1
    /\ UNCHANGED <<matrix, tool, run_no, scan, files, upstream, updates, stdout, cfg, current_versions, returned>>
    /\ UNCHANGED checkVars
    /\ UNCHANGED applyVars

\* line 161: strict-minor mode for the entry cv
StrictFor(entries, cv) == Cardinality(MinorsOf(entries, Version(cv).major)) > 1

\* line 165: whether an update is reported for the entry
ReportsVariant(cv, latest) == latest # None /\ latest # <<>> /\ latest # cv

\* lines 168-178: the update entry, the "v" prefix restored
VariantEntry(cv, latest) ==
    [file |-> VariantsFile, current_version |-> cv,
     latest_version |-> IF cv[1] = "v" /\ latest[1] # "v" THEN <<"v">> \o latest ELSE latest,
     type |-> "variant_update", raw_ref |-> cv]

\* lines 158-182: one iteration of the loop over current_versions
CheckVersion ==
    /\ tool = "versions" /\ pc = "loop" /\ di <= Len(current_versions)
    /\ LET cv == current_versions[di] IN
       LET latest == check_version_update(cv, available,
                        StrictFor(current_versions, cv), cfg.tag_template) IN
       /\ returned' = Append(returned, [cv |-> cv, latest |-> latest])
       /\ updates' = IF ReportsVariant(cv, latest)
                     THEN Append(updates, VariantEntry(cv, latest)) ELSE updates
    /\ di' = di + 1
    /\ pc' = IF di = Len(current_versions) THEN "emit" ELSE "loop"
    /\ UNCHANGED <<matrix, tool, run_no, scan, files, upstream, stdout, cfg, current_versions, available>>
    /\ UNCHANGED checkVars
    /\ UNCHANGED applyVars

\* line 184
EmitVersions ==
    /\ tool = "versions" /\ pc = "emit"
    /\ stdout' = [updates |-> updates]
    /\ pc' = "done"
    /\ UNCHANGED <<matrix, tool, run_no, scan, files, upstream, di, updates>>
    /\ UNCHANGED checkVars
    /\ UNCHANGED applyVars
    /\ UNCHANGED versionVars
    /\ UNCHANGED applyVars

InitVersions ==
    /\ run_no = 1 /\ ScanIdle /\ MatrixIdle
    /\ tool = "versions" /\ pc = "read"
    /\ \E v \in VersionTexts \cup {Missing} : files = Tree(Missing, Missing, v)
    /\ cfg \in Configs
    /\ upstream = <<>>
    /\ di = 1 /\ updates = <<>> /\ stdout = NoReport
    /\ CheckIdle /\ ApplyIdle
    /\ current_versions = <<>> /\ available = <<>> /\ returned = <<>>

NextVersions == ReadVersions \/ FetchUpstream \/ CheckVersion \/ EmitVersions

SpecVersions == InitVersions /\ [][NextVersions]_vars

----------------------------------------------------------------------------
(* Properties of check_upstream_versions *)

\* (major, minor, micro): the first three digit runs, zero-padded
Triple(v) == <<Version(v).major, Version(v).minor, Version(v).micro>>

TripleLt(a, b) ==
    \/ a[1] < b[1]
    \/ a[1] = b[1] /\ a[2] < b[2]
    \/ a[1] = b[1] /\ a[2] = b[2] /\ a[3] < b[3]

\* the version strings the run compares: each entry against each upstream candidate
ComparedPairs ==
    { <<current_versions[i], available[j]>> :
        i \in 1..Len(current_versions), j \in 1..Len(available) }

\* C6: Version comparison is the order of the padded triples: a < b exactly when a's
\* triple is below b's, and equal triples compare equal, neither greater.
C6_OrderOfPaddedTriples ==
    \A p \in ComparedPairs :
       LET a == Version(p[1]) IN
       LET b == Version(p[2]) IN
       /\ VLt(a, b) <=> TripleLt(Triple(p[1]), Triple(p[2]))
       /\ VGt(a, b) <=> TripleLt(Triple(p[2]), Triple(p[1]))
       /\ Triple(p[1]) = Triple(p[2]) => (VEq(a, b) /\ ~VGt(a, b) /\ ~VLt(a, b))

\* What does hold (not C6): the comparison is a total preorder on the lists of all
\* digit runs, unpadded.
OrderOfDigitRunLists ==
    \A p \in ComparedPairs :
       LET a == Version(p[1]) IN
       LET b == Version(p[2]) IN
       /\ (VLt(a, b) /\ ~VEq(a, b) /\ ~VGt(a, b))
          \/ (~VLt(a, b) /\ VEq(a, b) /\ ~VGt(a, b))
          \/ (~VLt(a, b) /\ ~VEq(a, b) /\ VGt(a, b))
       /\ VEq(a, b) <=> VParts(p[1]) = VParts(p[2])

\* the upstream strings after the tag template, when there is one
CleanCandidates ==
    { IF cfg.tag_template = NoTemplate THEN available[j]
      ELSE TemplateGroup(cfg.tag_template, available[j]) :
        j \in { k \in 1..Len(available) :
                  cfg.tag_template = NoTemplate
                  \/ TemplateMatches(cfg.tag_template, available[k]) } }

\* the version file tracks more than one minor for the major of cv
SeveralMinors(cv) ==
    \E i, j \in 1..Len(current_versions) :
       /\ Version(current_versions[i]).major = Version(cv).major
       /\ Version(current_versions[j]).major = Version(cv).major
       /\ Version(current_versions[i]).minor # Version(current_versions[j]).minor

Qualifying(cv) ==
    { c \in CleanCandidates :
        /\ \A i \in 1..Len(c) : c[i] \notin Letters
        /\ VGt(Version(c), Version(cv))
        /\ Version(c).major = Version(cv).major
        /\ SeveralMinors(cv) => Version(c).minor = Version(cv).minor }

----------------------------------------------------------------------------
(* A whole run of check_pinned_deps.main against a fixed upstream state *)

CraneFails == [kind |-> "nonzero", stdout |-> <<>>]
GhFails == [kind |-> "nonzero", stdout |-> GhNoOutput]

\* what the registry / the API answers for a key; a key it does not know fails
CraneAnswer(up, key) == IF key \in DOMAIN up.crane THEN up.crane[key] ELSE CraneFails
GhAnswer(up, key) == IF key \in DOMAIN up.gh THEN up.gh[key] ELSE GhFails

CraneGives(digest) == [kind |-> "exit0", stdout |-> <<"sha256:", digest, NL>>]
GhGives(sha) == [kind |-> "exit0", stdout |-> [json |-> TRUE, sha |-> <<sha>>]]

Node20 == <<"node", ":", "20">>
Node20Alpine == <<"node", ":", "20", "-alpine">>
NodeLatest == <<"node", ":", "latest">>
CommitsOf(ref) == <<"a", "/", "c", "/commits/", ref>>

\* everything resolves, to values other than the pinned ones
UpstreamNew ==
    [crane |-> [k \in {Node20, Node20Alpine, NodeLatest} |->
                  IF k = Node20Alpine THEN CraneGives("dB") ELSE CraneGives("dC")],
     gh |-> [k \in {CommitsOf("v4"), CommitsOf("main")} |-> GhGives("shaB")]]
\* everything resolves to the values pinned in the input texts
UpstreamSame ==
    [crane |-> [k \in {Node20, Node20Alpine, NodeLatest} |->
                  IF k = Node20 THEN CraneGives("dA") ELSE CraneGives("dB")],
     gh |-> [k \in {CommitsOf("v4"), CommitsOf("main")} |-> GhGives("shaA")]]
\* nothing resolves
UpstreamDown == [crane |-> <<>>, gh |-> <<>>]

Upstreams == {UpstreamNew, UpstreamSame, UpstreamDown}

EmptyLists == [ok |-> TRUE, updates |-> <<>>, warnings |-> <<>>, up_to_date |-> <<>>]

Add(r, e) ==
    [ok |-> r.ok,
     updates |-> IF e.list = "updates" THEN Append(r.updates, e.entry) ELSE r.updates,
     warnings |-> IF e.list = "warnings" THEN Append(r.warnings, e.entry) ELSE r.warnings,
     up_to_date |-> IF e.list = "up_to_date" THEN Append(r.up_to_date, e.entry)
                    ELSE r.up_to_date]

\* lines 200-243 for the records from index i on
RECURSIVE DockerLoop(_, _, _, _)
DockerLoop(deps, up, i, r) ==
    IF i > Len(deps) THEN r
    ELSE DockerLoop(deps, up, i + 1,
            Add(r, DockerEntry(deps[i],
                     check_docker_update(CraneAnswer(up, CraneKey(deps[i]))),
                     <<"docker", i>>)))

\* lines 246-305 for the records from index i on; ok = FALSE: a lookup raised
RECURSIVE ActionLoop(_, _, _, _)
ActionLoop(deps, up, i, r) ==
    IF i > Len(deps) THEN r
    ELSE IF ActionSkipsLookup(deps[i])
    THEN ActionLoop(deps, up, i + 1, Add(r, NoTagEntry(deps[i], <<"action", i>>)))
    ELSE LET got == check_action_update(GhAnswer(up, GhKey(deps[i]))) IN
         IF got.raised THEN [r EXCEPT !.ok = FALSE]
         ELSE ActionLoop(deps, up, i + 1,
                 Add(r, ActionEntry(deps[i], got.value, <<"action", i>>)))

\* the report of a run on tree fs; ok = FALSE: the run died before printing it
RunCheck(fs, up) ==
    LET a == find_action_pins(fs) IN
    IF ~a.ok THEN [EmptyLists EXCEPT !.ok = FALSE]
    ELSE ActionLoop(a.recs, up, 1, DockerLoop(find_docker_digests(fs), up, 1, EmptyLists))

----------------------------------------------------------------------------
(* create_update_pr.main: applying the updates to the files *)

\* lines 67-72: the keys of files_to_update, in insertion order
RECURSIVE FilesToUpdate(_, _)
FilesToUpdate(ups, seen) ==
    IF ups = <<>> THEN <<>>
    ELSE IF Head(ups).file \in seen THEN FilesToUpdate(Tail(ups), seen)
    ELSE <<Head(ups).file>> \o FilesToUpdate(Tail(ups), seen \cup {Head(ups).file})

\* files_to_update[f]
UpdatesOf(ups, f) == SelectSeq(ups, LAMBDA u : u.file = f)

\* lines 87-100: the replacement one update makes in the text of its file
ApplyUpdate(content, u) ==
    IF u.type = "docker_digest"
    THEN Replace(content, u.current_digest, u.latest_digest)
    ELSE IF u.type = "docker_unpinned"
    THEN Replace(content, u.raw_ref, u.raw_ref \o <<"@">> \o u.latest_digest)
    ELSE IF u.type = "action_pinned"
    THEN Replace(content, u.current_sha, u.latest_sha)
    ELSE IF u.type = "action_unpinned"
    THEN Replace(content, u.raw_ref,
                 u.action \o <<"@">> \o u.latest_sha \o <<" ", "#", " ">> \o u.tag)
    ELSE IF u.type = "variant_update"
    THEN Replace(content, u.current_version, u.latest_version)
    ELSE content

\* lines 80-100: the loop over file_updates, with seen_refs
RECURSIVE ApplyFileUpdates(_, _, _)
ApplyFileUpdates(content, file_updates, seen_refs) ==
    IF file_updates = <<>> THEN content
    ELSE LET u == Head(file_updates) IN
         LET ref_key == <<u.type, u.raw_ref>> IN
         IF ref_key \in seen_refs
         THEN ApplyFileUpdates(content, Tail(file_updates), seen_refs)
         ELSE ApplyFileUpdates(ApplyUpdate(content, u), Tail(file_updates),
                               seen_refs \cup {ref_key})

----------------------------------------------------------------------------
(* A whole run of check_upstream_versions.main against a fixed listing *)

RECURSIVE VersionLoop(_, _, _, _)
VersionLoop(entries, avail, c, i) ==
    IF i > Len(entries) THEN <<>>
    ELSE LET cv == entries[i] IN
         LET latest == check_version_update(cv, avail, StrictFor(entries, cv),
                                            c.tag_template) IN
         (IF ReportsVariant(cv, latest) THEN <<VariantEntry(cv, latest)>> ELSE <<>>)
         \o VersionLoop(entries, avail, c, i + 1)

\* the updates list the run prints for tree fs
RunVersions(fs, c, listing) ==
    IF fs[VariantsFile] = Missing THEN <<>>
    ELSE LET entries == ReadEntries(fs[VariantsFile]) IN
         LET avail == AvailableFrom(c, listing) IN
         IF entries = <<>> \/ avail = <<>> THEN <<>>
         ELSE VersionLoop(entries, avail, c, 1)

----------------------------------------------------------------------------
(* create_update_pr.main as a state machine *)

\* a run_git that never exits
RunGitExits_Never(check, ok) == FALSE

\* run_git: sys.exit(1) when check is set and the command failed
RunGitExits(check, ok) == check /\ ~ok

Ran(name, arg, ok) == [cmd |-> name, arg |-> arg, ok |-> ok]

Exit(code) == exit_code' = code /\ pc' = "exited"

\* a report whose update list is never taken as empty
NoUpdates_Never(ups) == FALSE

\* line 45: `if not updates`
NoUpdates(ups) == ups = <<>>

\* lines 41-47
ReadReport ==
    /\ tool = "apply" /\ pc = "start"
    /\ IF NoUpdates(updates) THEN Exit(0) ELSE pc' = "config_name" /\ UNCHANGED exit_code
    /\ UNCHANGED <<matrix, tool, run_no, scan, files, upstream, di, updates, stdout>>
    /\ UNCHANGED <<origin_main, todo, staged, cmds, committed, remote_branch, pr_open,
                   prs_created>>
    /\ UNCHANGED checkVars
    /\ UNCHANGED versionVars

SetupSteps == <<"config_name", "config_email", "fetch", "checkout">>

\* a setup that goes from the git identity straight to the checkout
StepAfter_NoFetch(step) ==
    CASE step = "config_name" -> "config_email"
      [] step = "config_email" -> "checkout"
      [] step = "fetch" -> "checkout"
      [] step = "checkout" -> "apply"

\* lines 50-57 in order
StepAfter(step) ==
    CASE step = "config_name" -> "config_email"
      [] step = "config_email" -> "fetch"
      [] step = "fetch" -> "checkout"
      [] step = "checkout" -> "apply"

\* lines 50-72: git config (twice), fetch, checkout -B; the checkout leaves the
\* tree of origin/main in the working tree, and files_to_update is built
GitSetup ==
    /\ tool = "apply" /\ pc \in {SetupSteps[k] : k \in 1..Len(SetupSteps)}
    /\ \E ok \in BOOLEAN :
         /\ cmds' = Append(cmds, Ran(pc, "", ok))
         /\ IF RunGitExits(TRUE, ok) THEN Exit(1)
            ELSE pc' = StepAfter(pc) /\ UNCHANGED exit_code
         /\ files' = IF pc = "checkout" /\ ok THEN origin_main ELSE files
    /\ todo' = IF pc = "checkout" THEN FilesToUpdate(updates, {}) ELSE todo
    /\ UNCHANGED <<matrix, tool, run_no, scan, upstream, di, updates, stdout>>
    /\ UNCHANGED <<origin_main, staged, committed, remote_branch, pr_open, prs_created>>
    /\ UNCHANGED checkVars
    /\ UNCHANGED versionVars

\* open(filepath, "r") raises FileNotFoundError
FileNotFound(fs, f) == fs[f] = Missing

\* lines 75-109: one iteration of the loop over files_to_update
ApplyFile ==
    /\ tool = "apply" /\ pc = "apply" /\ todo # <<>>
    /\ LET f == Head(todo) IN
       IF FileNotFound(files, f)
       THEN /\ UNCHANGED <<files, cmds, staged, pc, exit_code>>
       ELSE \E ok \in BOOLEAN :
              /\ files' = [files EXCEPT
                             ![f] = ApplyFileUpdates(files[f], UpdatesOf(updates, f), {})]
              /\ cmds' = Append(cmds, Ran("add", f, ok))
              /\ staged' = IF ok THEN staged \cup {f} ELSE staged
              /\ IF RunGitExits(TRUE, ok) THEN Exit(1) ELSE UNCHANGED <<pc, exit_code>>
    /\ todo' = Tail(todo)
    /\ UNCHANGED <<matrix, tool, run_no, scan, upstream, di, updates, stdout>>
    /\ UNCHANGED <<origin_main, committed, remote_branch, pr_open, prs_created>>
    /\ UNCHANGED checkVars
    /\ UNCHANGED versionVars

\* a diff that reports every staged file as a change
DiffQuiet_AnyStaged(fs, head, added) == added = {}

\* git diff --cached --quiet exits 0 when the index equals HEAD
DiffQuiet(fs, head, added) == \A f \in added : fs[f] = head[f]

\* lines 112-115
DiffStaged ==
    /\ tool = "apply" /\ pc = "apply" /\ todo = <<>>
    /\ LET quiet == DiffQuiet(files, origin_main, staged) IN
        /\ cmds' = Append(cmds, Ran("diff", "", quiet))
        /\ IF RunGitExits(FALSE, quiet) THEN Exit(1)
           ELSE IF quiet THEN Exit(0)
           ELSE pc' = "commit" /\ UNCHANGED exit_code
    /\ UNCHANGED <<matrix, tool, run_no, scan, files, upstream, di, updates, stdout>>
    /\ UNCHANGED <<origin_main, todo, staged, committed, remote_branch, pr_open,
                   prs_created>>
    /\ UNCHANGED checkVars
    /\ UNCHANGED versionVars

\* line 119
Commit ==
    /\ tool = "apply" /\ pc = "commit"
    /\ \E ok \in BOOLEAN :
         /\ cmds' = Append(cmds, Ran("commit", "", ok))
         /\ committed' = IF ok THEN files ELSE committed
         /\ IF RunGitExits(TRUE, ok) THEN Exit(1) ELSE pc' = "push" /\ UNCHANGED exit_code
    /\ UNCHANGED <<matrix, tool, run_no, scan, files, upstream, di, updates, stdout>>
    /\ UNCHANGED <<origin_main, todo, staged, remote_branch, pr_open, prs_created>>
    /\ UNCHANGED checkVars
    /\ UNCHANGED versionVars

\* line 123
Push ==
    /\ tool = "apply" /\ pc = "push"
    /\ \E ok \in BOOLEAN :
         /\ cmds' = Append(cmds, Ran("push", "", ok))
         /\ remote_branch' = IF ok THEN committed ELSE remote_branch
         /\ IF RunGitExits(TRUE, ok) THEN Exit(1)
            ELSE pc' = "pr_list" /\ UNCHANGED exit_code
    /\ UNCHANGED <<matrix, tool, run_no, scan, files, upstream, di, updates, stdout>>
    /\ UNCHANGED <<origin_main, todo, staged, committed, pr_open, prs_created>>
    /\ UNCHANGED checkVars
    /\ UNCHANGED versionVars

\* what `gh pr list ... -q .[0].number` prints: the number of the open pull
\* request when the call works and there is one, nothing otherwise
PrListStdout(how, open) == IF how = "ok" /\ open THEN "1" ELSE ""

\* a lookup whose answer is never taken as an existing pull request
ExistingPr_Never(out) == FALSE

\* lines 132-134: existing_pr = result.stdout.strip(); `if not existing_pr`
ExistingPr(out) == out # ""

\* lines 127-134 and 176-177: gh pr list; its exit status is not looked at, its
\* output is the number of the open pull request, or empty.  "missing": there is
\* no gh, subprocess.run raises FileNotFoundError and the process dies
PrList ==
    /\ tool = "apply" /\ pc = "pr_list"
    /\ \E how \in {"ok", "nonzero", "missing"} :
         LET out == PrListStdout(how, pr_open) IN
         /\ cmds' = Append(cmds, Ran("pr list", out, how = "ok"))
         /\ IF how = "missing" THEN Exit(1)
            ELSE IF ExistingPr(out) THEN Exit(0)
            ELSE pc' = "pr_create" /\ UNCHANGED exit_code
    /\ UNCHANGED <<matrix, tool, run_no, scan, files, upstream, di, updates, stdout>>
    /\ UNCHANGED <<origin_main, todo, staged, committed, remote_branch, pr_open,
                   prs_created>>
    /\ UNCHANGED checkVars
    /\ UNCHANGED versionVars

\* lines 135-175: gh pr create; GitHub refuses a second open pull request for the
\* same head and base
PrCreate ==
    /\ tool = "apply" /\ pc = "pr_create"
    /\ \E ok \in (IF pr_open THEN {FALSE} ELSE BOOLEAN) :
         /\ cmds' = Append(cmds, Ran("pr create", "", ok))
         /\ pr_open' = (pr_open \/ ok)
         /\ prs_created' = IF ok THEN prs_created + 1 ELSE prs_created
         /\ IF ok THEN Exit(0) ELSE Exit(1)
    /\ UNCHANGED <<matrix, tool, run_no, scan, files, upstream, di, updates, stdout>>
    /\ UNCHANGED <<origin_main, todo, staged, committed, remote_branch>>
    /\ UNCHANGED checkVars
    /\ UNCHANGED versionVars

\* the trees a report was made from, and the trees of origin/main
PinTrees ==
    { Tree(d, w, Missing) : d \in DockerTexts \cup {Missing},
                            w \in WorkflowTexts \cup {Missing} }
VariantTrees == { Tree(Missing, Missing, v) : v \in VersionTexts \cup {Missing} }

\* the update lists of the reports the two check tools can print
PinReports == { RunCheck(t, up).updates : t \in PinTrees, up \in Upstreams }
VariantReports ==
    { RunVersions(t, c, l) : t \in VariantTrees, c \in Configs, l \in Listings }

InitApply ==
    /\ run_no = 1 /\ ScanIdle /\ MatrixIdle
    /\ tool = "apply" /\ pc = "start"
    /\ \/ updates \in PinReports /\ origin_main \in PinTrees
       \/ updates \in VariantReports /\ origin_main \in VariantTrees
    /\ files = origin_main
    /\ pr_open \in BOOLEAN
    /\ upstream = <<>> /\ di = 1 /\ stdout = NoReport
    /\ todo = <<>> /\ staged = {} /\ cmds = <<>> /\ exit_code = -1
    /\ committed = None /\ remote_branch = None /\ prs_created = 0
    /\ CheckIdle /\ VersionIdle

NextApply ==
    ReadReport \/ GitSetup \/ ApplyFile \/ DiffStaged \/ Commit \/ Push \/ PrList \/ PrCreate

SpecApply == InitApply /\ [][NextApply]_vars

----------------------------------------------------------------------------
(* Properties of create_update_pr.main *)

\* the loop over files_to_update ran to its end
LoopDone == tool = "apply" /\ \E k \in 1..Len(cmds) : cmds[k].cmd = "diff"

\* the first update of the report that names the reference (f, type, raw_ref)
Names(u, f, rec) == u.file = f /\ u.type = rec.type /\ u.raw_ref = rec.raw_ref

HasUpdate(f, rec) == \E k \in 1..Len(updates) : Names(updates[k], f, rec)

UpdateOf(f, rec) ==
    updates[CHOOSE k \in 1..Len(updates) :
               /\ Names(updates[k], f, rec)
               /\ \A j \in 1..(k - 1) : ~Names(updates[j], f, rec)]

\* a record of the rewritten file carries the new value of the update for the
\* record it was before; a record without an update is what it was
DockerCarries(before, after) ==
    IF HasUpdate(DockerFile, before)
    THEN /\ after.type = "docker_digest"
         /\ after.image = before.image /\ after.tag = before.tag
         /\ after.current_digest = UpdateOf(DockerFile, before).latest_digest
    ELSE after = before

ActionCarries(before, after) ==
    IF HasUpdate(WorkflowFile, before)
    THEN /\ after.type = "action_pinned"
         /\ after.action = before.action
         /\ after.current_sha = UpdateOf(WorkflowFile, before).latest_sha
    ELSE after = before

VariantCarries(before, after) ==
    LET rec == [type |-> "variant_update", raw_ref |-> before] IN
    IF HasUpdate(VariantsFile, rec)
    THEN after = UpdateOf(VariantsFile, rec).latest_version
    ELSE after = before

\* every update of the report names a reference that the tree of origin/main holds
ReportFitsTree ==
    \A k \in 1..Len(updates) :
       LET u == updates[k] IN
       /\ origin_main[u.file] # Missing
       /\ \/ \E i \in 1..Len(find_docker_digests(origin_main)) :
               Names(u, DockerFile, find_docker_digests(origin_main)[i])
          \/ \E i \in 1..Len(find_action_pins(origin_main).recs) :
               Names(u, WorkflowFile, find_action_pins(origin_main).recs[i])
          \/ /\ u.type = "variant_update" /\ origin_main[VariantsFile] # Missing
             /\ \E i \in 1..Len(ReadEntries(origin_main[VariantsFile])) :
                  ReadEntries(origin_main[VariantsFile])[i] = u.raw_ref

\* C5: each update is applied exactly once: after the files are processed, every
\* reference named by an update carries that update's new value and every other
\* reference is what it was, also when the old text of one update occurs inside
\* another reference.
C5_EveryReferenceCarriesNewValue ==
    (LoopDone /\ ReportFitsTree) =>
       /\ LET b == find_docker_digests(origin_main) IN
          LET a == find_docker_digests(files) IN
          /\ Len(a) = Len(b)
          /\ \A i \in 1..Len(b) : DockerCarries(b[i], a[i])
       /\ LET b == find_action_pins(origin_main).recs IN
          LET a == find_action_pins(files).recs IN
          /\ Len(a) = Len(b)
          /\ \A i \in 1..Len(b) : ActionCarries(b[i], a[i])
       /\ origin_main[VariantsFile] # Missing =>
             LET b == ReadEntries(origin_main[VariantsFile]) IN
             LET a == ReadEntries(files[VariantsFile]) IN
             /\ Len(a) = Len(b)
             /\ \A i \in 1..Len(b) : VariantCarries(b[i], a[i])

AddRan(f) == \E k \in 1..Len(cmds) : cmds[k].cmd = "add" /\ cmds[k].arg = f /\ cmds[k].ok

AfterDiff == {"commit", "push", "pr list", "pr create"}

\* C9: a file named by an update that does not exist is skipped (not created, not
\* staged, not fatal) and the files after it are still processed; and when no file
\* ended up changed the run ends with status 0 and without commit, push or pull
\* request.
C9_MissingSkippedNoChangeNoPr ==
    /\ \A k \in 1..Len(cmds) : cmds[k].cmd = "add" => origin_main[cmds[k].arg] # Missing
    /\ tool = "apply" =>
          \A f \in Files : origin_main[f] = Missing => files[f] = Missing
    /\ LoopDone =>
          \A k \in 1..Len(updates) :
             origin_main[updates[k].file] # Missing => AddRan(updates[k].file)
    /\ (LoopDone /\ files = origin_main) =>
          /\ pc = "exited" /\ exit_code = 0
          /\ \A k \in 1..Len(cmds) : cmds[k].cmd \notin AfterDiff
          /\ committed = None /\ remote_branch = None /\ prs_created = 0

\* the first file named by the report does not exist, the second was rewritten
\* and staged, nothing changed, and the run ended with status 0
C9_Witness ==
    /\ tool = "apply" /\ pc = "exited" /\ exit_code = 0
    /\ Len(FilesToUpdate(updates, {})) = 2
    /\ origin_main[FilesToUpdate(updates, {})[1]] = Missing
    /\ AddRan(FilesToUpdate(updates, {})[2])
    /\ cmds[Len(cmds)] = Ran("diff", "", TRUE)

CheckedSteps ==
    {"config_name", "config_email", "fetch", "checkout", "add", "commit", "push",
     "pr create"}

\* C10: a failed git config, fetch, checkout, add, commit, push or pull-request
\* creation is the last command of the run, which ends at once with status 1.
C10_FailedStepEndsRun ==
    \A k \in 1..Len(cmds) :
       (cmds[k].cmd \in CheckedSteps /\ ~cmds[k].ok) =>
          /\ k = Len(cmds)
          /\ pc = "exited"
          /\ exit_code = 1

\* a failed `git add` of the second file, after the first was rewritten and staged
C10_Witness ==
    /\ tool = "apply" /\ pc = "exited" /\ exit_code = 1
    /\ Len(cmds) >= 2
    /\ cmds[Len(cmds)].cmd = "add" /\ ~cmds[Len(cmds)].ok
    /\ cmds[Len(cmds) - 1].cmd = "add" /\ cmds[Len(cmds) - 1].ok
    /\ committed = None /\ remote_branch = None /\ prs_created = 0

----------------------------------------------------------------------------
(* The update pipeline: check, create_update_pr, check again, upstream fixed *)

\* the updates list a check run prints for tree fs: check_pinned_deps when no
\* variants config is given, check_upstream_versions otherwise
CheckRun(fs, c, up) ==
    IF c = <<>> THEN RunCheck(fs, up)
    ELSE [EmptyLists EXCEPT !.updates = RunVersions(fs, c, up)]

\* create_update_pr.main with every command succeeding: the tree of the branch
RECURSIVE ApplyAll(_, _, _)
ApplyAll(fs, ups, fl) ==
    IF fl = <<>> THEN fs
    ELSE LET f == Head(fl) IN
         IF FileNotFound(fs, f) THEN ApplyAll(fs, ups, Tail(fl))
         ELSE ApplyAll([fs EXCEPT ![f] = ApplyFileUpdates(fs[f], UpdatesOf(ups, f), {})],
                       ups, Tail(fl))

PipelineCheck ==
    /\ tool = "pipeline" /\ pc = "check"
    /\ LET r == CheckRun(files, cfg, upstream) IN
       /\ cmds' = Append(cmds, Ran("check", r.updates, r.ok))
       /\ IF r.ok
          THEN /\ updates' = r.updates
               /\ stdout' = [updates |-> r.updates, warnings |-> r.warnings,
                             up_to_date |-> r.up_to_date]
               /\ pc' = "apply"
          ELSE /\ pc' = "crashed"
               /\ UNCHANGED <<updates, stdout>>
    /\ UNCHANGED <<matrix, tool, run_no, scan, files, upstream, di>>
    /\ UNCHANGED <<origin_main, todo, staged, exit_code, committed, remote_branch,
                   pr_open, prs_created>>
    /\ UNCHANGED checkVars
    /\ UNCHANGED versionVars

\* the branch is built from origin/main and merged
PipelineApply ==
    /\ tool = "pipeline" /\ pc = "apply"
    /\ files' = ApplyAll(files, updates, FilesToUpdate(updates, {}))
    /\ origin_main' = files'
    /\ cmds' = Append(cmds, Ran("apply", "", TRUE))
    /\ pc' = "recheck"
    /\ UNCHANGED <<matrix, tool, run_no, scan, upstream, di, updates, stdout>>
    /\ UNCHANGED <<todo, staged, exit_code, committed, remote_branch, pr_open,
                   prs_created>>
    /\ UNCHANGED checkVars
    /\ UNCHANGED versionVars

PipelineRecheck ==
    /\ tool = "pipeline" /\ pc = "recheck"
    /\ LET r == CheckRun(files, cfg, upstream) IN
       /\ cmds' = Append(cmds, Ran("check", r.updates, r.ok))
       /\ IF r.ok
          THEN /\ updates' = r.updates
               /\ stdout' = [updates |-> r.updates, warnings |-> r.warnings,
                             up_to_date |-> r.up_to_date]
               /\ pc' = "done"
          ELSE /\ pc' = "crashed"
               /\ UNCHANGED <<updates, stdout>>
    /\ UNCHANGED <<matrix, tool, run_no, scan, files, upstream, di>>
    /\ UNCHANGED <<origin_main, todo, staged, exit_code, committed, remote_branch,
                   pr_open, prs_created>>
    /\ UNCHANGED checkVars
    /\ UNCHANGED versionVars

InitPipeline ==
    /\ run_no = 1 /\ ScanIdle /\ MatrixIdle
    /\ tool = "pipeline" /\ pc = "check"
    /\ \/ files \in PinTrees /\ upstream \in Upstreams /\ cfg = <<>>
       \/ files \in VariantTrees /\ upstream \in Listings /\ cfg \in Configs
    /\ origin_main = files
    /\ updates = <<>> /\ di = 1 /\ stdout = NoReport
    /\ todo = <<>> /\ staged = {} /\ cmds = <<>> /\ exit_code = -1
    /\ committed = None /\ remote_branch = None /\ pr_open = FALSE /\ prs_created = 0
    /\ CheckIdle
    /\ current_versions = <<>> /\ available = <<>> /\ returned = <<>>

NextPipeline == PipelineCheck \/ PipelineApply \/ PipelineRecheck

SpecPipeline == InitPipeline /\ [][NextPipeline]_vars

\* C4: when the pipeline has run check, create_update_pr and check again against
\* the same upstream state, the second check reports no update.
C4_SecondCheckReportsNothing ==
    (tool = "pipeline" /\ pc = "done") => updates = <<>>

----------------------------------------------------------------------------
(* create_update_pr run again and again: same report, same origin/main *)

MaxRuns == 2

\* the process is started again; the report file, origin/main, the remote branch
\* and the pull request are what the earlier runs left
Rerun ==
    /\ tool = "apply" /\ pc = "exited" /\ run_no < MaxRuns
    /\ run_no' = run_no + 1
    /\ pc' = "start"
    /\ exit_code' = -1
    /\ todo' = <<>> /\ staged' = {} /\ cmds' = <<>> /\ committed' = None
    /\ UNCHANGED <<matrix, tool, scan, files, upstream, di, updates, stdout>>
    /\ UNCHANGED <<origin_main, remote_branch, pr_open, prs_created>>
    /\ UNCHANGED checkVars
    /\ UNCHANGED versionVars

\* the first run starts with no pull request open for the branch
InitReruns == InitApply /\ ~pr_open

NextReruns == NextApply \/ Rerun

SpecReruns == InitReruns /\ [][NextReruns]_vars

\* the tree the report asks for
AskedTree == ApplyAll(origin_main, updates, FilesToUpdate(updates, {}))

CmdRan(name) == \E k \in 1..Len(cmds) : cmds[k].cmd = name

----------------------------------------------------------------------------
(* find_action_pins on workflow files built from one or two `uses:` lines *)

Indents == {<<>>, <<" ", "-", " ">>}
ActionNames == {<<"a", "/", "c">>, <<".", "/", "local">>}
Refs == {"shaA", "SHAU", "main"}
Comments == {<<>>, <<" ", "#", " ", "v4">>, <<" ", "#", " ", "pin">>}
\* what stands before the first `uses:` line: nothing, a blank line, a line of
\* blanks, a line of text
Preambles == {<<>>, <<NL>>, <<" ", NL>>, <<"name:", " ", "x", NL>>}
\* the file ends with a newline, or does not
Endings == {<<NL>>, <<>>}

UsesLine(ind, act, ref, com) == ind \o <<"uses:", " ">> \o act \o <<"@", ref>> \o com

UsesLines ==
    { UsesLine(i, a, r, c) : i \in Indents, a \in ActionNames, r \in Refs, c \in Comments }

\* second lines: the same action at the same ref, with and without the comment
SecondLines ==
    { UsesLine(<<>>, <<"a", "/", "c">>, r, c) :
         r \in {"shaA"}, c \in {<<>>, <<" ", "#", " ", "v4">>} }

UsesFiles ==
    { pre \o l \o end : pre \in Preambles, l \in UsesLines, end \in Endings }
    \cup { l \o <<NL>> \o m \o <<NL>> : l \in UsesLines, m \in SecondLines }

\* lines 188-193 of main, for the workflow scanner alone
ScanWorkflows ==
    /\ tool = "scan_actions" /\ pc = "scan"
    /\ LET a == find_action_pins(files) IN
        /\ action_deps' = a.recs
        /\ pc' = IF a.ok THEN "done" ELSE "scan_crashed"
    /\ UNCHANGED <<matrix, tool, run_no, scan, files, upstream, di, updates, stdout>>
    /\ UNCHANGED <<docker_deps, warnings, up_to_date, lookups>>
    /\ UNCHANGED versionVars
    /\ UNCHANGED applyVars

InitScan ==
    /\ run_no = 1 /\ ScanIdle /\ MatrixIdle
    /\ tool = "scan_actions" /\ pc = "scan"
    /\ \E w \in UsesFiles : files = Tree(Missing, w, Missing)
    /\ upstream = <<>>
    /\ di = 1 /\ updates = <<>> /\ stdout = NoReport
    /\ CheckIdle /\ VersionIdle /\ ApplyIdle

NextScan == ScanWorkflows

SpecScan == InitScan /\ [][NextScan]_vars

\* the `uses: <action>@<ref>` lines of the file that do not name a local action,
\* in file order, each with what the pattern captures on that line
IsUsesLine(line) ==
    MatchUses(line, 1).found /\ ~StartsWithAt(MatchUses(line, 1).action, <<".", "/">>, 1)

MatchedLines == SelectSeq(Lines(files[WorkflowFile]), IsUsesLine)

\* exactly 40 hexadecimal characters
Hex40(ref) == Len(ref) = 1 /\ ref[1] \in ShaAtoms \cup UpperShaAtoms

Scanned == tool = "scan_actions" /\ pc # "scan"

\* C12: every matched non-local `uses:` line has its one record, of kind
\* action_pinned when the ref is 40 hexadecimal characters and action_unpinned
\* otherwise.
C12_EveryUsesLineClassified ==
    Scanned =>
       /\ Len(action_deps) = Len(MatchedLines)
       /\ \A i \in 1..Len(MatchedLines) :
             LET m == MatchUses(MatchedLines[i], 1) IN
             i <= Len(action_deps) =>
                /\ action_deps[i].action = m.action
                /\ action_deps[i].raw_ref = m.action \o <<"@">> \o m.ref
                /\ action_deps[i].type =
                      IF Hex40(m.ref) THEN "action_pinned" ELSE "action_unpinned"

\* C17: the tag of a SHA-pinned record is the `# v...` comment of its own line,
\* and None exactly when that line has none, whatever precedes the line and
\* whether or not the file ends with a newline.
C17_TagIsCommentOfSameLine ==
    Scanned =>
       /\ Len(action_deps) = Len(MatchedLines)
       /\ \A i \in 1..Len(MatchedLines) :
             (i <= Len(action_deps) /\ action_deps[i].type = "action_pinned") =>
                action_deps[i].tag = TagComment(MatchedLines[i], 1)

\* what holds of the scanner: when every `uses:` line follows a line of text or
\* starts the file, the file ends with a newline and no ref has capital digits
ScannerOnPlainFiles ==
    (/\ Scanned
     /\ files[WorkflowFile][Len(files[WorkflowFile])] = NL
     /\ \A i \in 1..Len(Lines(files[WorkflowFile])) :
           Strip(Lines(files[WorkflowFile])[i]) # <<>>
     /\ \A i \in 1..Len(MatchedLines) :
           MatchUses(MatchedLines[i], 1).ref[1] \notin UpperShaAtoms)
    => /\ pc = "done"
       /\ Len(action_deps) = Len(MatchedLines)
       /\ \A i \in 1..Len(MatchedLines) :
             LET m == MatchUses(MatchedLines[i], 1) IN
             /\ action_deps[i].action = m.action
             /\ action_deps[i].type =
                   IF Hex40(m.ref) THEN "action_pinned" ELSE "action_unpinned"
             /\ action_deps[i].type = "action_pinned" =>
                   action_deps[i].tag = TagComment(MatchedLines[i], 1)

----------------------------------------------------------------------------
(* check_upstream_versions when the upstream command may never return *)

\* run_cmd, lines 11-19: subprocess.run is given no timeout, so it waits for as
\* long as `gh release list` / `crane ls` runs; the command never exits
FetchNeverReturns ==
    /\ tool = "versions" /\ pc = "fetch"
    /\ pc' = "blocked"
    /\ UNCHANGED <<matrix, tool, run_no, scan, files, upstream, di, updates, stdout>>
    /\ UNCHANGED checkVars
    /\ UNCHANGED versionVars
    /\ UNCHANGED applyVars

NextVersionsLive == NextVersions \/ FetchNeverReturns

\* a sequential process: whenever it can take its next step it does
SpecVersionsLive ==
    InitVersions /\ [][NextVersionsLive]_vars /\ WF_vars(NextVersionsLive)

\* C13: every external call is bounded by a timeout, so the run of the check tool
\* always comes to its end with the report printed.
C13_RunEndsWithReport ==
    (tool = "versions") ~> (pc = "done" /\ stdout # NoReport)

----------------------------------------------------------------------------
(* check_scan_results *)

\* load_trivy_ignores, lines 19-22: the line up to its first "#", stripped
IgnoreEntry(line) ==
    LET h == IndexFrom(line, <<"#">>, 1) IN
    Strip(IF h = 0 THEN line ELSE SubSeq(line, 1, h - 1))

\* load_trivy_ignores: the set of the non-empty entries; no file, no entry
load_trivy_ignores(ignore_file) ==
    IF ignore_file = Missing THEN {}
    ELSE { IgnoreEntry(ignore_file[k]) : k \in 1..Len(ignore_file) } \ {<<>>}

\* fnmatch.fnmatch(name, pat), "*" standing for any run of atoms
RECURSIVE FnMatch(_, _)
FnMatch(name, pat) ==
    IF pat = <<>> THEN name = <<>>
    ELSE IF Head(pat) = "*"
    THEN FnMatch(name, Tail(pat)) \/ (name # <<>> /\ FnMatch(Tail(name), pat))
    ELSE name # <<>> /\ Head(name) = Head(pat) /\ FnMatch(Tail(name), Tail(pat))

\* os.path.basename
Basename(path) == Tail_(path, RIndexFrom(path, <<"/">>, Len(path)) + 1)

\* line 104: entries that are taken for vulnerability ids, never for paths
LooksLikeVulnId(pattern) ==
    pattern # <<>> /\ Head(pattern) \in {"CVE-", "GHSA-", "RUSTSEC-"}

\* line 107
PathMatches(secret_file, pattern) ==
    FnMatch(secret_file, pattern) \/ FnMatch(Basename(secret_file), pattern)

\* lines 101-110: the patterns the loop over the set can stop at
PathPatterns(ignores, secret_file) ==
    { pt \in ignores : ~LooksLikeVulnId(pt) /\ PathMatches(secret_file, pt) }

\* a falsy id: the key is absent, or its value is empty
Falsy(id) == id = None \/ id = <<>>

\* lines 66-76: the loop over the vulnerabilities of one result
RECURSIVE VulnLoop(_, _, _, _)
VulnLoop(vulns, j, ri, st) ==
    IF j > Len(vulns) THEN st
    ELSE LET vuln_id == vulns[j] IN
         LET src == <<ri, "vuln", j>> IN
         VulnLoop(vulns, j + 1, ri,
            IF Falsy(vuln_id) THEN st
            ELSE IF vuln_id \in st.ignores
            THEN [st EXCEPT !.used_ignores = @ \cup {vuln_id},
                            !.marks = Append(@, [src |-> src, entry |-> vuln_id])]
            ELSE [st EXCEPT !.unignored_findings =
                               Append(@, [kind |-> "VULN", id |-> vuln_id, src |-> src])])

\* the ignore files: lines without their newline
IgnoreFiles ==
    { Missing,
      << <<"CVE-", "1", " ", "#", " ", "why">>, <<>>, <<"#", "note">>, <<"aws-key">> >>,
      << <<"aws-key">>, <<"secrets", "/", "*">>, <<"*", ".pem">> >>,
      << <<" ", "CVE-", "2">>, <<"*", ".pem">> >> }

ImageTarget == <<"img", ":", "1">>
PemTarget == <<"secrets", "/", "k", ".pem">>

\* one entry of "Results": its Target, the VulnerabilityID of each of its
\* Vulnerabilities and the RuleID of each of its Secrets (None: the key is absent)
ScanResult(t, v, sec) == [Target |-> t, Vulnerabilities |-> v, Secrets |-> sec]

\* the results files: not readable as JSON, or the list under "Results"
ResultFiles ==
    { [readable |-> FALSE, Results |-> <<>>],
      [readable |-> TRUE, Results |-> <<>>],
      [readable |-> TRUE,
       Results |-> <<ScanResult(ImageTarget, << <<"CVE-", "1">>, <<"CVE-", "3">> >>, <<>>)>>],
      [readable |-> TRUE,
       Results |-> <<ScanResult(ImageTarget, << <<"CVE-", "1">> >>, <<>>),
                     ScanResult(PemTarget, <<>>, << <<"aws-key">> >>)>>],
      [readable |-> TRUE,
       Results |-> <<ScanResult(PemTarget, <<>>, << <<"aws-key">>, None >>)>>],
      [readable |-> TRUE,
       Results |-> <<ScanResult(<<"app", "/", "main.py">>, <<>>, << <<"gh-token">> >>)>>],
      [readable |-> TRUE,
       Results |-> <<ScanResult(ImageTarget, <<None>>, <<>>)>>] }

\* DISCORD_WEBHOOK_SECURITY_NOTIFICATIONS is not set; the post works; it raises
WebhookOutcomes == {"unset", "sent", "failed"}

\* lines 35-53
ScanLoad ==
    /\ tool = "scan_results" /\ pc = "load"
    /\ scan' = [scan EXCEPT !.ignores = load_trivy_ignores(scan.ignore_file),
                            !.results = scan.json.Results]
    /\ IF ~scan.json.readable THEN Exit(1)
       ELSE /\ pc' = IF scan.json.Results = <<>> THEN "report" ELSE "vulns"
            /\ UNCHANGED exit_code
    /\ UNCHANGED <<matrix, tool, run_no, files, upstream, di, updates, stdout>>
    /\ UNCHANGED <<origin_main, todo, staged, cmds, committed, remote_branch, pr_open,
                   prs_created>>
    /\ UNCHANGED checkVars
    /\ UNCHANGED versionVars

\* lines 62-76: the next result is taken and its vulnerabilities are gone through
ScanVulns ==
    /\ tool = "scan_results" /\ pc = "vulns"
    /\ scan' = [VulnLoop(scan.results[scan.ri].Vulnerabilities, 1, scan.ri, scan)
                   EXCEPT !.si = 1]
    /\ pc' = "secrets"
    /\ UNCHANGED <<matrix, tool, run_no, files, upstream, di, updates, stdout>>
    /\ UNCHANGED applyVars
    /\ UNCHANGED checkVars
    /\ UNCHANGED versionVars

\* lines 80-113: one secret of the result
ScanSecret ==
    /\ tool = "scan_results" /\ pc = "secrets"
    /\ scan.si <= Len(scan.results[scan.ri].Secrets)
    /\ LET rule_id == scan.results[scan.ri].Secrets[scan.si] IN
       LET secret_file == scan.results[scan.ri].Target IN
       LET src == <<scan.ri, "secret", scan.si>> IN
       LET next == [scan EXCEPT !.si = @ + 1] IN
       IF ~Falsy(rule_id) /\ rule_id \in scan.ignores
       THEN scan' = [next EXCEPT !.used_ignores = @ \cup {rule_id},
                                 !.marks = Append(@, [src |-> src, entry |-> rule_id])]
       ELSE IF PathPatterns(scan.ignores, secret_file) # {}
       THEN \E pattern \in PathPatterns(scan.ignores, secret_file) :
              scan' = [next EXCEPT !.used_ignores = @ \cup {pattern},
                                   !.marks = Append(@, [src |-> src, entry |-> pattern])]
       ELSE scan' = [next EXCEPT !.unignored_findings =
                        Append(@, [kind |-> "SECRET", id |-> rule_id, src |-> src])]
    /\ UNCHANGED <<matrix, tool, pc, run_no, files, upstream, di, updates, stdout>>
    /\ UNCHANGED applyVars
    /\ UNCHANGED checkVars
    /\ UNCHANGED versionVars

\* the loop over the secrets of the result is exhausted
ScanNextResult ==
    /\ tool = "scan_results" /\ pc = "secrets"
    /\ scan.si > Len(scan.results[scan.ri].Secrets)
    /\ scan' = [scan EXCEPT !.ri = @ + 1]
    /\ pc' = IF scan.ri = Len(scan.results) THEN "report" ELSE "vulns"
    /\ UNCHANGED <<matrix, tool, run_no, files, upstream, di, updates, stdout>>
    /\ UNCHANGED applyVars
    /\ UNCHANGED checkVars
    /\ UNCHANGED versionVars

\* lines 116-158: the banners, the stale ignores, the notification, the exit
ScanReport ==
    /\ tool = "scan_results" /\ pc = "report"
    /\ LET stale_ignores == scan.ignores \ scan.used_ignores IN
       scan' = [scan EXCEPT !.stale_ignores = stale_ignores,
                            !.notified = IF stale_ignores # {} /\ scan.webhook # "unset"
                                         THEN scan.webhook ELSE "none"]
    /\ IF scan.unignored_findings # <<>> THEN Exit(1) ELSE Exit(0)
    /\ UNCHANGED <<matrix, tool, run_no, files, upstream, di, updates, stdout>>
    /\ UNCHANGED <<origin_main, todo, staged, cmds, committed, remote_branch, pr_open,
                   prs_created>>
    /\ UNCHANGED checkVars
    /\ UNCHANGED versionVars

InitScanResults ==
    /\ run_no = 1 /\ MatrixIdle
    /\ tool = "scan_results" /\ pc = "load"
    /\ \E i \in IgnoreFiles, j \in ResultFiles, w \in WebhookOutcomes :
         scan = [ignore_file |-> i, json |-> j, webhook |-> w,
                 ignores |-> {}, results |-> <<>>, ri |-> 1, si |-> 1,
                 used_ignores |-> {}, unignored_findings |-> <<>>, marks |-> <<>>,
                 stale_ignores |-> {}, notified |-> "none"]
    /\ files = Tree(Missing, Missing, Missing)
    /\ upstream = <<>>
    /\ di = 1 /\ updates = <<>> /\ stdout = NoReport
    /\ CheckIdle /\ VersionIdle /\ ApplyIdle

NextScanResults == ScanLoad \/ ScanVulns \/ ScanSecret \/ ScanNextResult \/ ScanReport

SpecScanResults == InitScanResults /\ [][NextScanResults]_vars

----------------------------------------------------------------------------
(* Properties of check_scan_results.main *)

ScanEnded == tool = "scan_results" /\ pc = "exited" /\ scan.json.readable

\* the findings of the results file: every vulnerability and every secret
Findings ==
    UNION { { <<r, "vuln", j>> : j \in 1..Len(scan.json.Results[r].Vulnerabilities) }
            \cup { <<r, "secret", j>> : j \in 1..Len(scan.json.Results[r].Secrets) }
          : r \in 1..Len(scan.json.Results) }

FindingId(f) ==
    IF f[2] = "vuln" THEN scan.json.Results[f[1]].Vulnerabilities[f[3]]
    ELSE scan.json.Results[f[1]].Secrets[f[3]]

\* the ignore entry e is about the finding f
EntryMatches(e, f) ==
    \/ FindingId(f) = e
    \/ /\ f[2] = "secret" /\ ~LooksLikeVulnId(e)
       /\ PathMatches(scan.json.Results[f[1]].Target, e)

Covered(f) == \E e \in scan.ignores : EntryMatches(e, f)

MarkedUsed(f) == \E k \in 1..Len(scan.marks) : scan.marks[k].src = f

ListedUnignored(f) ==
    \E k \in 1..Len(scan.unignored_findings) : scan.unignored_findings[k].src = f

\* C14: given a readable results file, the exit status is non-zero exactly when
\* some finding is not covered by the ignore list; stale ignores and a failed
\* notification do not make it non-zero.
C14_NonZeroIffUncoveredFinding ==
    ScanEnded => (exit_code # 0 <=> \E f \in Findings : ~Covered(f))

\* C20: the stale set is the ignore entries minus those that match a finding, and
\* every finding either marked an ignore entry as used or is listed as un-ignored,
\* never both and never neither.
C20_StaleAndFindingsAccounted ==
    ScanEnded =>
       /\ scan.stale_ignores =
             { e \in scan.ignores : ~\E f \in Findings : EntryMatches(e, f) }
       /\ \A f \in Findings : MarkedUsed(f) # ListedUnignored(f)

\* what holds of the checker: the exit status follows the list of un-ignored
\* findings, the stale set is the entries no finding marked, a marked entry is
\* about its finding, and a finding with an id, or a secret, is accounted for once
ScanResultsAccounting ==
    ScanEnded =>
       /\ exit_code = IF scan.unignored_findings # <<>> THEN 1 ELSE 0
       /\ scan.stale_ignores = scan.ignores \ scan.used_ignores
       /\ scan.used_ignores = { scan.marks[k].entry : k \in 1..Len(scan.marks) }
       /\ \A k \in 1..Len(scan.marks) :
             /\ scan.marks[k].entry \in scan.ignores
             /\ EntryMatches(scan.marks[k].entry, scan.marks[k].src)
       /\ \A f \in Findings :
             /\ ~(MarkedUsed(f) /\ ListedUnignored(f))
             /\ (f[2] = "secret" \/ ~Falsy(FindingId(f))) =>
                   /\ MarkedUsed(f) # ListedUnignored(f)
                   /\ ListedUnignored(f) <=> ~Covered(f)
       /\ (scan.unignored_findings = <<>> /\ scan.stale_ignores # {}) => exit_code = 0
       /\ (scan.unignored_findings = <<>> /\ scan.notified = "failed") => exit_code = 0

----------------------------------------------------------------------------
(* Order of the report lists of check_pinned_deps.main *)

\* record a was discovered before record b: the image references come first, in
\* the order find_docker_digests returned them, then the actions
DiscoveredBefore(a, b) ==
    \/ a[1] = "docker" /\ b[1] = "action"
    \/ a[1] = b[1] /\ a[2] < b[2]

InDiscoveryOrder(l) ==
    \A i, j \in 1..Len(l) : DiscoveredBefore(l[i].src, l[j].src) => i < j

\* C15: each of updates, warnings and up_to_date keeps discovery order, while the
\* run goes on and in the report that is printed, whatever the lookups did.
C15_ListsKeepDiscoveryOrder ==
    tool = "check" =>
       /\ InDiscoveryOrder(updates)
       /\ InDiscoveryOrder(warnings)
       /\ InDiscoveryOrder(up_to_date)
       /\ pc = "done" =>
             /\ stdout.updates = updates
             /\ stdout.warnings = warnings
             /\ stdout.up_to_date = up_to_date

\* a printed report whose updates and warnings each hold an image reference
\* followed by an action, the lookups of four records having gone both ways
C15_Witness ==
    /\ tool = "check" /\ pc = "done"
    /\ Len(stdout.updates) = 2 /\ Len(stdout.warnings) = 2
    /\ stdout.updates[1].src[1] = "docker" /\ stdout.updates[2].src[1] = "action"
    /\ stdout.warnings[1].src[1] = "docker" /\ stdout.warnings[2].src[1] = "action"
    /\ stdout.warnings[1].src[2] < stdout.updates[1].src[2]
    /\ stdout.updates[2].src[2] < stdout.warnings[2].src[2]

\* ---------------------------------------------------------------------
\* check_pinned_deps.find_docker_digests on digest-pinned FROM references:
\* with and without a tag, with and without a registry port, written
\* directly, with an AS clause, or through an ARG.
\* ---------------------------------------------------------------------
RegistryHosts == {<<>>, <<"reg", ":", "5000", "/">>}
ImageTags == {<<>>, <<":", "20">>}
PinnedRefs ==
    {h \o <<"node">> \o t \o <<"@", "sha256:", "dA">> :
        h \in RegistryHosts, t \in ImageTags}

FromPlain(ref) == <<"FROM", " ">> \o ref \o <<NL>>
FromAs(ref) == <<"FROM", " ">> \o ref \o <<" ", "AS", " ", "build", NL>>
FromArg(ref) ==
    <<"ARG", " ", "BASE", "=">> \o ref \o <<NL, "FROM", " ", "${BASE}", NL>>
Stanzas ==
    {FromPlain(r) : r \in PinnedRefs} \cup {FromAs(r) : r \in PinnedRefs}
        \cup {FromArg(r) : r \in PinnedRefs}
PinnedDockerfiles == {a \o b : a \in Stanzas, b \in Stanzas}

ScanDockerfiles ==
    /\ tool = "scan_images" /\ pc = "scan"
    /\ docker_deps' = find_docker_digests(files)
    /\ pc' = "done"
    /\ UNCHANGED <<matrix, tool, run_no, scan, files, upstream, di, updates, stdout>>
    /\ UNCHANGED <<action_deps, warnings, up_to_date, lookups>>
    /\ UNCHANGED versionVars
    /\ UNCHANGED applyVars

InitScanImages ==
    /\ run_no = 1 /\ ScanIdle /\ MatrixIdle
    /\ tool = "scan_images" /\ pc = "scan"
    /\ \E d \in PinnedDockerfiles : files = Tree(d, Missing, Missing)
    /\ upstream = <<>>
    /\ di = 1 /\ updates = <<>> /\ stdout = NoReport
    /\ CheckIdle /\ VersionIdle /\ ApplyIdle

NextScanImages == ScanDockerfiles

SpecScanImages == InitScanImages /\ [][NextScanImages]_vars

\* the FROM references of the Dockerfile after ARG substitution, in order
RECURSIVE ResolvedOf(_, _)
ResolvedOf(lines, args) ==
    IF lines = <<>> THEN <<>>
    ELSE (IF IsFromLine(Head(lines))
          THEN <<Resolve(FromRef(Head(lines)), args)>> ELSE <<>>)
         \o ResolvedOf(Tail(lines), args)

ResolvedRefs ==
    LET lines == Lines(files[DockerFile]) IN
    ResolvedOf(lines, CollectArgs(lines, <<>>))

ImagesScanned == tool = "scan_images" /\ pc = "done"

Rebuilt(rec) == rec.image \o <<":">> \o rec.tag \o <<"@">> \o rec.current_digest

HasColonBeforeAt(ref) ==
    \E i \in 1..Len(ref) :
        /\ ref[i] = ":"
        /\ \A j \in 1..i : ref[j] # "@"

\* C16 as stated: for every FROM reference that carries an @sha256 suffix
\* after ARG substitution, image + ":" + tag + "@" + current_digest is the
\* resolved reference, whether or not it has a tag or a registry port.
C16_RoundTripAlways ==
    ImagesScanned =>
        /\ Len(docker_deps) = Len(ResolvedRefs)
        /\ \A k \in 1..Len(docker_deps) :
              /\ docker_deps[k].type = "docker_digest"
              /\ Rebuilt(docker_deps[k]) = ResolvedRefs[k]

\* C16: for every FROM reference that carries an @sha256 suffix after ARG
\* substitution, the scanner yields one docker_digest record; when the part
\* before "@" contains a ":" (a tag separator or only a registry port),
\* image + ":" + tag + "@" + current_digest is the resolved reference; when
\* it contains none, the tag is "latest" and image + "@" + current_digest
\* is the resolved reference.
C16_RoundTrip ==
    ImagesScanned =>
        /\ Len(docker_deps) = Len(ResolvedRefs)
        /\ \A k \in 1..Len(docker_deps) :
              LET rec == docker_deps[k] IN
              /\ rec.type = "docker_digest"
              /\ IF HasColonBeforeAt(ResolvedRefs[k])
                 THEN Rebuilt(rec) = ResolvedRefs[k]
                 ELSE /\ rec.tag = <<"latest">>
                      /\ rec.image \o <<"@">> \o rec.current_digest
                            = ResolvedRefs[k]

\* a scan whose first reference has a registry port and a tag and whose
\* second, reached through an ARG, has neither
C16_Witness ==
    /\ ImagesScanned
    /\ Len(docker_deps) = 2
    /\ ResolvedRefs[1] = <<"reg", ":", "5000", "/", "node", ":", "20",
                           "@", "sha256:", "dA">>
    /\ docker_deps[1].image = <<"reg", ":", "5000", "/", "node">>
    /\ docker_deps[1].tag = <<"20">>
    /\ docker_deps[2].raw_ref = <<"${BASE}">>
    /\ ResolvedRefs[2] = <<"node", "@", "sha256:", "dA">>
    /\ docker_deps[2].tag = <<"latest">>

----------------------------------------------------------------------------
(* create_update_pr.main: the empty report, and the order of the steps *)

\* C18: when the report's update list is empty the only step of the
\* Applier is the exit with status 0: no git or gh command has run or runs,
\* and the working tree, the staged files, the commit, the remote branch and
\* the pull requests are left as they were.
C18_EmptyReportTouchesNothing ==
    [][(tool = "apply" /\ updates = <<>>) =>
          /\ pc = "start" /\ pc' = "exited" /\ exit_code' = 0
          /\ cmds = <<>> /\ cmds' = <<>>
          /\ UNCHANGED <<files, origin_main, staged, committed, remote_branch,
                         pr_open, prs_created>>]_vars

\* an Applier that has exited on an empty report while a pull request is open
C18_Witness ==
    /\ tool = "apply" /\ updates = <<>>
    /\ pc = "exited" /\ exit_code = 0
    /\ cmds = <<>> /\ files = origin_main
    /\ committed = None /\ remote_branch = None
    /\ pr_open /\ prs_created = 0

Before(i, name, ok) == \E j \in 1..(i - 1) : cmds[j] = Ran(name, "", ok)

\* C19: in every run of the Applier, a file is written and staged only
\* after a successful fetch and then a successful checkout of origin/main;
\* the commit comes after every add and right after a diff that found
\* changes; the push comes right after a successful commit; the pull request
\* lookup comes right after a successful push; a pull request is created
\* only right after a lookup, hence only in a run that committed.
C19_StepsInOrder ==
    tool = "apply" =>
      \A k \in 1..Len(cmds) :
        /\ cmds[k].cmd = "add" =>
              \E i \in 1..(k - 1) :
                 /\ cmds[i] = Ran("checkout", "", TRUE)
                 /\ Before(i, "fetch", TRUE)
        /\ cmds[k].cmd = "commit" =>
              /\ k > 1 /\ cmds[k - 1] = Ran("diff", "", FALSE)
              /\ \E j \in 1..(k - 1) : cmds[j].cmd = "add" /\ cmds[j].ok
              /\ \A j \in k..Len(cmds) : cmds[j].cmd # "add"
        /\ cmds[k].cmd = "push" =>
              k > 1 /\ cmds[k - 1] = Ran("commit", "", TRUE)
        /\ cmds[k].cmd = "pr list" =>
              k > 1 /\ cmds[k - 1] = Ran("push", "", TRUE)
        /\ cmds[k].cmd = "pr create" =>
              /\ k > 1 /\ cmds[k - 1].cmd = "pr list"
              /\ Before(k, "commit", TRUE)
              /\ Before(k, "push", TRUE)

\* a second run that went through every step and created the pull request
C19_Witness ==
    /\ tool = "apply" /\ run_no = 2
    /\ pc = "exited" /\ exit_code = 0
    /\ Len(cmds) >= 9
    /\ cmds[Len(cmds)] = Ran("pr create", "", TRUE)
    /\ CmdRan("add") /\ CmdRan("commit") /\ CmdRan("push")
    /\ prs_created = 1

----------------------------------------------------------------------------
(* generate-matrix.py and generate_matrix.py                                *)
(* Image names and versions are sequences of characters; a Dockerfile is a *)
(* sequence of atoms as above.                                             *)

\* ord() of the characters of names and versions
Ord(c) ==
    CASE c = "\n" -> 10
      [] c = " " -> 32
      [] c = "1" -> 49
      [] c = "2" -> 50
      [] c = "a" -> 97
      [] c = "b" -> 98

\* a < b on str
RECURSIVE StrLt(_, _)
StrLt(a, b) ==
    IF b = <<>> THEN FALSE
    ELSE IF a = <<>> THEN TRUE
    ELSE IF Head(a) = Head(b) THEN StrLt(Tail(a), Tail(b))
    ELSE Ord(Head(a)) < Ord(Head(b))

\* (x["image"], x["version"]) < (y["image"], y["version"])
KeyLt(x, y) ==
    \/ StrLt(x.image, y.image)
    \/ x.image = y.image /\ StrLt(x.version, y.version)

\* list.sort(key=...): stable, by insertion from the left
RECURSIVE InsertByKey(_, _)
InsertByKey(sorted, x) ==
    IF sorted = <<>> THEN <<x>>
    ELSE IF KeyLt(x, Head(sorted)) THEN <<x>> \o sorted
    ELSE <<Head(sorted)>> \o InsertByKey(Tail(sorted), x)

RECURSIVE SortByKey(_, _)
SortByKey(rest, sorted) ==
    IF rest = <<>> THEN sorted
    ELSE SortByKey(Tail(rest), InsertByKey(sorted, Head(rest)))

\* sorted(os.listdir(images_dir))
RECURSIVE SortedNames(_)
SortedNames(names) ==
    IF names = {} THEN <<>>
    ELSE LET m == CHOOSE n \in names : \A o \in names \ {n} : StrLt(n, o) IN
         <<m>> \o SortedNames(names \ {m})

\* s.split(): the runs of non-whitespace
RECURSIVE SplitWs(_)
SplitWs(s) ==
    LET i == SkipWs(s, 1) IN
    IF i > Len(s) THEN <<>>
    ELSE LET j == SkipNonWs(s, i) IN
         <<SubSeq(s, i, j - 1)>> \o SplitWs(Tail_(s, j))

\* str.upper() on the atoms of a Dockerfile
Upper(a) == IF a = "from" THEN "FROM" ELSE a

InternalRegistryPrefix == "nexus.gillouche.homelab"

\* generate_matrix.py lines 11-16: the second word of the first line that,
\* stripped and upper-cased, starts with "FROM "
RECURSIVE FirstFromWord(_)
FirstFromWord(lines) ==
    IF lines = <<>> THEN None
    ELSE LET l == Strip(Head(lines)) IN
         IF /\ Len(l) >= 2 /\ Upper(l[1]) = "FROM" /\ l[2] = " "
            /\ Len(SplitWs(l)) > 1
         THEN SplitWs(l)[2]
         ELSE FirstFromWord(Tail(lines))

get_base_image(dockerfile) ==
    IF dockerfile = Missing THEN None ELSE FirstFromWord(Lines(dockerfile))

\* line 43: base_image and base_image.startswith(internal_registry_prefix)
IsLevel2(base_image) ==
    base_image # None /\ base_image # <<>> /\ base_image[1] = InternalRegistryPrefix

\* the versions of one image directory: the words of VARIANTS when the file
\* exists, else the stripped content of VERSION when it exists and is not blank
VersionsOf(entry) ==
    IF entry.VARIANTS # Missing THEN SplitWs(Strip(entry.VARIANTS))
    ELSE IF entry.VERSION # Missing /\ Strip(entry.VERSION) # <<>>
         THEN <<Strip(entry.VERSION)>>
         ELSE <<>>

RECURSIVE EntriesOf(_, _)
EntriesOf(image_name, versions) ==
    IF versions = <<>> THEN <<>>
    ELSE <<[image |-> image_name, version |-> Head(versions)]>>
         \o EntriesOf(image_name, Tail(versions))

\* generate-matrix.py lines 15-46
RECURSIVE UnleveledLoop(_, _)
UnleveledLoop(images, names) ==
    IF names = <<>> THEN <<>>
    ELSE LET e == images[Head(names)] IN
         (IF e.isdir THEN EntriesOf(Head(names), VersionsOf(e)) ELSE <<>>)
         \o UnleveledLoop(images, Tail(names))

generate_unleveled(images) ==
    SortByKey(UnleveledLoop(images, SortedNames(DOMAIN images)), <<>>)

\* generate_matrix.py lines 34-72
RECURSIVE LeveledLoop(_, _, _)
LeveledLoop(images, names, level) ==
    IF names = <<>> THEN <<>>
    ELSE LET e == images[Head(names)] IN
         LET is_level_2 == IsLevel2(get_base_image(e.Dockerfile)) IN
         (IF /\ e.isdir
             /\ ~(level = 1 /\ is_level_2)
             /\ ~(level = 2 /\ ~is_level_2)
          THEN EntriesOf(Head(names), VersionsOf(e)) ELSE <<>>)
         \o LeveledLoop(images, Tail(names), level)

generate_leveled(images, level) ==
    SortByKey(LeveledLoop(images, SortedNames(DOMAIN images), level), <<>>)

\* sample Dockerfiles
FromInternal ==
    <<"FROM", " ", InternalRegistryPrefix, "/", "base", ":", "1", " ", "AS", " ",
      "build", "\n">>
FromExternal == <<"FROM", " ", "node", ":", "20", "\n">>
FromLowerInternal == <<" ", "from", " ", InternalRegistryPrefix, "/", "base", "\n">>
FromAfterComment ==
    <<"#", " ", "FROM", " ", "node", "\n", "\n">> \o FromInternal
FromExternalThenInternal == FromExternal \o FromInternal
FromPlatformInternal ==
    <<"FROM", " ", "--platform=linux/amd64", " ", InternalRegistryPrefix, "/",
      "base", "\n">>
FromPlatformExternal ==
    <<"FROM", " ", "--platform=linux/amd64", " ", "node", ":", "20", "\n">>
MatrixDockerfiles ==
    {Missing, <<>>, FromInternal, FromExternal, FromLowerInternal, FromAfterComment,
     FromExternalThenInternal, FromPlatformInternal, FromPlatformExternal}

\* sample VARIANTS / VERSION pairs
VersionSources ==
    { <<Missing, Missing>>,
      <<<<"2", "\n", "1", "2", "\n">>, Missing>>,
      <<<<"1", " ", "1">>, <<"2", "\n">>>>,
      <<<<>>, <<"1", "\n">>>>,
      <<Missing, <<"1", " ", "2", "\n">>>>,
      <<Missing, <<" ", "\n">>>> }

PlainFile == [isdir |-> FALSE, VARIANTS |-> Missing, VERSION |-> Missing,
              Dockerfile |-> Missing]
ImageEntries ==
    {PlainFile} \cup
    { [isdir |-> TRUE, VARIANTS |-> vs[1], VERSION |-> vs[2], Dockerfile |-> d] :
        vs \in VersionSources, d \in MatrixDockerfiles }

ImageNames == {<<"a", "b">>, <<"b">>}
ImagesDirs ==
    UNION { [ns -> ImageEntries] : ns \in SUBSET ImageNames }

LevelRun(level) == IF level = 1 THEN "level1" ELSE "level2"

\* one run of generate-matrix.py
RunUnleveled ==
    /\ tool = "matrix" /\ "unleveled" \notin matrix.ran
    /\ matrix' = [matrix EXCEPT !.ran = @ \cup {"unleveled"},
                                !.unleveled = generate_unleveled(matrix.images)]
    /\ UNCHANGED <<tool, pc, run_no, scan, files, upstream, di, updates, stdout>>
    /\ UNCHANGED checkVars
    /\ UNCHANGED versionVars
    /\ UNCHANGED applyVars

\* one run of generate_matrix.py --level 1 or --level 2
RunLeveled ==
    /\ tool = "matrix"
    /\ \E level \in {1, 2} :
         /\ LevelRun(level) \notin matrix.ran
         /\ matrix' = [matrix EXCEPT !.ran = @ \cup {LevelRun(level)},
                                     !.leveled[level] =
                                        generate_leveled(matrix.images, level)]
    /\ UNCHANGED <<tool, pc, run_no, scan, files, upstream, di, updates, stdout>>
    /\ UNCHANGED checkVars
    /\ UNCHANGED versionVars
    /\ UNCHANGED applyVars

InitMatrix ==
    /\ run_no = 1 /\ ScanIdle
    /\ tool = "matrix" /\ pc = "runs"
    /\ \E i \in ImagesDirs :
         matrix = [images |-> i, ran |-> {}, unleveled |-> <<>>,
                   leveled |-> [l \in {1, 2} |-> <<>>]]
    /\ files = Tree(Missing, Missing, Missing)
    /\ upstream = <<>>
    /\ di = 1 /\ updates = <<>> /\ stdout = NoReport
    /\ CheckIdle /\ VersionIdle /\ ApplyIdle

NextMatrix == RunUnleveled \/ RunLeveled

SpecMatrix == InitMatrix /\ [][NextMatrix]_vars

----------------------------------------------------------------------------
(* Properties of the matrix generators *)

AllRan == tool = "matrix" /\ matrix.ran = {"unleveled", "level1", "level2"}

Count(l, e) == Cardinality({ k \in 1..Len(l) : l[k] = e })

MatrixEntries ==
    { matrix.unleveled[k] : k \in 1..Len(matrix.unleveled) }
        \cup { matrix.leveled[1][k] : k \in 1..Len(matrix.leveled[1]) }
        \cup { matrix.leveled[2][k] : k \in 1..Len(matrix.leveled[2]) }

SortedByKey(l) == \A k \in 1..(Len(l) - 1) : ~KeyLt(l[k + 1], l[k])

\* FROM [--platform=<platform>] <image> [AS <name>]
IsFromInstruction(words) ==
    words # <<>> /\ Len(words[1]) = 1 /\ words[1][1] \in {"FROM", "from"}

IsFlag(word) == word[1] = "--platform=linux/amd64"

\* the image of a FROM instruction: its first word that is not a flag
RECURSIVE ImageWord(_)
ImageWord(words) ==
    IF words = <<>> THEN <<>>
    ELSE IF IsFlag(Head(words)) THEN ImageWord(Tail(words))
    ELSE Head(words)

RECURSIVE FirstFromImage(_)
FirstFromImage(lines) ==
    IF lines = <<>> THEN <<>>
    ELSE IF IsFromInstruction(SplitWs(Head(lines)))
         THEN ImageWord(Tail(SplitWs(Head(lines))))
         ELSE FirstFromImage(Tail(lines))

\* the first FROM of the Dockerfile names an image of the internal registry
FirstFromInternal(dockerfile) ==
    /\ dockerfile # Missing
    /\ LET image == FirstFromImage(Lines(dockerfile)) IN
        image # <<>> /\ image[1] = InternalRegistryPrefix

FirstFromHasFlag(dockerfile) ==
    /\ dockerfile # Missing
    /\ \E k \in 1..Len(dockerfile) : dockerfile[k] = "--platform=linux/amd64"

\* C21: once the three generators have run on the same images directory,
\* every (image, version) entry occurs in the un-leveled matrix as often as
\* in the two level matrices together and in only one of these, it is in the
\* level-2 matrix exactly when the first FROM of the image's Dockerfile names
\* an image under the internal registry prefix, and each of the three
\* outputs is sorted by (image, version).
C21_LevelsPartitionUnleveled ==
    AllRan =>
        /\ \A e \in MatrixEntries :
              /\ Count(matrix.unleveled, e)
                    = Count(matrix.leveled[1], e) + Count(matrix.leveled[2], e)
              /\ Count(matrix.leveled[1], e) = 0 \/ Count(matrix.leveled[2], e) = 0
              /\ Count(matrix.leveled[2], e) > 0
                    <=> FirstFromInternal(matrix.images[e.image].Dockerfile)
        /\ SortedByKey(matrix.unleveled)
        /\ SortedByKey(matrix.leveled[1])
        /\ SortedByKey(matrix.leveled[2])

\* the same without flags: the two level matrices partition the un-leveled
\* one and all three are sorted; an entry of the level-2 matrix always has an
\* internal first FROM, and an entry whose Dockerfile has an internal first
\* FROM and no --platform flag is always in the level-2 matrix
LevelsPartitionWithoutFlags ==
    AllRan =>
        /\ \A e \in MatrixEntries :
              LET d == matrix.images[e.image].Dockerfile IN
              /\ Count(matrix.unleveled, e)
                    = Count(matrix.leveled[1], e) + Count(matrix.leveled[2], e)
              /\ Count(matrix.leveled[1], e) = 0 \/ Count(matrix.leveled[2], e) = 0
              /\ Count(matrix.leveled[2], e) > 0 => FirstFromInternal(d)
              /\ (FirstFromInternal(d) /\ ~FirstFromHasFlag(d))
                    => Count(matrix.leveled[2], e) > 0
        /\ SortedByKey(matrix.unleveled)
        /\ SortedByKey(matrix.leveled[1])
        /\ SortedByKey(matrix.leveled[2])

====
